---- MODULE Spec2Model ----
(***************************************************************************)
(* Patch lifecycle engine of syscare: the patch manager (entry map, status *)
(* cache, transition table), the transaction engine, the kernel patch      *)
(* driver (sysfs + symbol registry) and the user patch driver (target map, *)
(* per-patch process sets).                                                *)
(***************************************************************************)
EXTENDS Integers, Sequences, FiniteSets, TLC

(***************************************************************************)
(* Universe of the model                                                   *)
(***************************************************************************)
\* Number of process ids that may run the user target.
NumPids == 2

Pids == 1..NumPids

KPatches == {"k1", "k2", "k3"}
UPatches == {"u1", "u2"}
Patches == KPatches \cup UPatches

\* Arc<Patch>: immutable attributes of every patch that can be installed.
PatchInfo ==
    [p \in Patches |->
        CASE p = "k1" -> [kind |-> "KernelPatch", entity_name |-> "kernel/fix-a",
                          patch_name |-> "fix-a", target_name |-> "kernel"]
          [] p = "k2" -> [kind |-> "KernelPatch", entity_name |-> "kernel/fix-b",
                          patch_name |-> "fix-b", target_name |-> "kernel"]
          [] p = "k3" -> [kind |-> "KernelPatch", entity_name |-> "kernel/fix-d",
                          patch_name |-> "fix-d", target_name |-> "kernel"]
          [] p = "u1" -> [kind |-> "UserPatch", entity_name |-> "svc/fix-a",
                          patch_name |-> "fix-a", target_name |-> "svc"]
          [] p = "u2" -> [kind |-> "UserPatch", entity_name |-> "svc/fix-c",
                          patch_name |-> "fix-c", target_name |-> "svc"]]

\* Lexicographic order of the entity names (String::cmp).
NameRank(name) ==
    CASE name = "kernel/fix-a" -> 1 [] name = "kernel/fix-b" -> 2
      [] name = "kernel/fix-d" -> 3
      [] name = "svc/fix-a" -> 4 [] name = "svc/fix-c" -> 5

\* Patch roots whose metadata cannot be parsed.
BadMetadata == {"junk"}
\* Kernel patch roots whose metadata is fine and whose module is not an ELF
\* object that can be resolved.
BadElf == {"k2.noelf"}
\* A second root holding a patch with the uuid of k1 (another build of it).
SameUuidRoots == {"k1.v2"}
\* Every directory that can appear under patches/.
PatchRoots == Patches \cup SameUuidRoots \cup BadMetadata \cup BadElf

\* Order in which fs::list_dirs yields the patch roots.
ScanOrder == <<"u2", "junk", "k2", "k2.noelf", "u1", "k3", "k1", "k1.v2">>

\* KernelPatchExt.symbols: (target module, symbol name) pairs.
KSymbols ==
    [p \in KPatches |->
        CASE p = "k1" -> {<<"vmlinux", "do_fork">>}
          [] p = "k2" -> {<<"vmlinux", "do_fork">>, <<"ext4", "ext4_sync">>}
          [] p = "k3" -> {<<"nfs", "nfs_read">>}]

\* UserPatch.target_elf and UserPatch.functions.
TargetElf == [p \in UPatches |-> "/usr/bin/svc"]
UFunctions == [p \in UPatches |-> IF p = "u1" THEN {"f1"} ELSE {"f1", "f2"}]

\* PatchStatus, with its derived total order.
PatchStatus == {"Unknown", "NotApplied", "Deactived", "Actived", "Accepted"}
StatusRank ==
    [s \in PatchStatus |->
        CASE s = "Unknown" -> 0 [] s = "NotApplied" -> 1 [] s = "Deactived" -> 2
          [] s = "Actived" -> 3 [] s = "Accepted" -> 4]

\* PatchOpFlag
Flags == {"Normal", "Force"}

\* Places where an external collaborator (kernel, loader, /proc, FFI,
\* monitor) can fail; an oracle names at most one of them per primitive, and
\* the pids on which the injection FFI call succeeds.
FailPoints == {"none", "status", "compat", "consistency", "dependency",
               "insmod", "rmmod", "write", "find", "exe", "map_files",
               "watch", "ignore"}
Oracles == [fail : FailPoints, ok_pids : SUBSET Pids]
NoFailure == [fail |-> "none", ok_pids |-> {}]

\* The oracles that can make a difference to a status query.
StatusOracles == {o \in Oracles : o.fail \in {"none", "status"} /\ o.ok_pids = {}}

VARIABLES
    disk,              \* patch roots present under patches/
    entry_map,         \* PatchManager.entry_map: sequence of [uuid, status]
    status_file,       \* contents of the patch_status file
    sysfs,             \* /sys/kernel/livepatch/<m>/enabled per kernel patch
    patch_target_map,  \* KernelPatchDriver.patch_target_map
    status_map,        \* UserPatchDriver.status_map
    target_map,        \* UserPatchDriver.target_map
    watched,           \* paths watched by UserPatchMonitor
    procs,             \* live processes of the user target
    call,              \* activation of do_status_transition
    txn,               \* activation of PatchTransaction::invoke
    restore,           \* activation of restore_patch_status
    upatch,            \* locks and threads of the user driver and its monitor
    resolve,           \* activation of KernelPatchExt::new on a patch object
    forced             \* history: kernel patches enabled by a Force activation

vars == <<disk, entry_map, status_file, sysfs, patch_target_map, status_map,
          target_map, watched, procs, call, txn, restore, upatch, resolve,
          forced>>

worldVars == <<entry_map, sysfs, patch_target_map, status_map, target_map, watched>>
envVars == <<disk, status_file, procs>>

\* The mutable state the manager and the drivers work on.
World ==
    [entry_map |-> entry_map, sysfs |-> sysfs,
     patch_target_map |-> patch_target_map, status_map |-> status_map,
     target_map |-> target_map, watched |-> watched, procs |-> procs]

Ok(w) == [w |-> w, err |-> "ok"]
Fail(w, kind) == [w |-> w, err |-> kind]

(***************************************************************************)
(* Generic helpers                                                         *)
(***************************************************************************)
Range(s) == {s[i] : i \in DOMAIN s}

RECURSIVE SortedInsert(_, _)
\* Stable insertion of e into the sequence s, already sorted by entity_name.
SortedInsert(s, e) ==
    IF s = <<>> THEN <<e>>
    ELSE IF NameRank(PatchInfo[e.uuid].entity_name)
            < NameRank(PatchInfo[Head(s).uuid].entity_name)
         THEN <<e>> \o s
         ELSE <<Head(s)>> \o SortedInsert(Tail(s), e)

RECURSIVE SortByEntityName(_)
SortByEntityName(s) ==
    IF s = <<>> THEN <<>>
    ELSE SortedInsert(SortByEntityName(SubSeq(s, 1, Len(s) - 1)), s[Len(s)])

Uuids(em) == {em[i].uuid : i \in DOMAIN em}
EntryOf(em, p) == CHOOSE e \in Range(em) : e.uuid = p
StatusOf(em, p) == EntryOf(em, p).status

(***************************************************************************)
(* Patch target registry of the kernel driver (kpatch/target.rs)           *)
(***************************************************************************)
\* PatchTarget::classify_symbols: symbols grouped by their target module.
classify_symbols(symbols) ==
    [t \in {s[1] : s \in symbols} |-> {s[2] : s \in {x \in symbols : x[1] = t}}]

\* PatchTarget::get_conflicts: every record whose symbol is in the set.
get_conflicts(target, symbols) ==
    {r \in target : r.symbol \in symbols}

\* PatchTarget::get_overrides: as get_conflicts, other patches only.
get_overrides(target, uuid, symbols) ==
    {r \in target : r.uuid # uuid /\ r.symbol \in symbols}

\* PatchTarget::add_symbols (idempotent) and remove_symbols.
add_symbols(target, uuid, symbols) ==
    target \cup {[uuid |-> uuid, symbol |-> s] : s \in symbols}

remove_symbols(target, uuid, symbols) ==
    target \ {[uuid |-> uuid, symbol |-> s] : s \in symbols}

(***************************************************************************)
(* Kernel patch driver                                                     *)
(***************************************************************************)
KPATCH_STATUS_DISABLED == "0"
KPATCH_STATUS_ENABLED == "1"
SysfsContent == {"absent", KPATCH_STATUS_DISABLED, KPATCH_STATUS_ENABLED, "x"}

\* KernelPatchDriver::get_patch_status
KernelGetPatchStatus(w, p, o) ==
    IF o.fail = "status" THEN [err |-> "Io", status |-> "Unknown"]
    ELSE CASE w.sysfs[p] = KPATCH_STATUS_DISABLED ->
                [err |-> "ok", status |-> "Deactived"]
           [] w.sysfs[p] = KPATCH_STATUS_ENABLED ->
                [err |-> "ok", status |-> "Actived"]
           [] w.sysfs[p] = "absent" ->
                [err |-> "ok", status |-> "NotApplied"]
           [] OTHER -> [err |-> "InvalidFormat", status |-> "Unknown"]

KernelSetPatchStatus_AlwaysEnabled(w, p, status, o) ==
    IF status \notin {"NotApplied", "Deactived", "Actived"}
    THEN Fail(w, "InvalidFormat")
    ELSE IF o.fail = "write" \/ w.sysfs[p] = "absent" THEN Fail(w, "Io")
    ELSE Ok([w EXCEPT !.sysfs[p] = KPATCH_STATUS_ENABLED])

\* KernelPatchDriver::set_patch_status: write "0" or "1" to the sysfs file.
KernelSetPatchStatus(w, p, status, o) ==
    IF status \notin {"NotApplied", "Deactived", "Actived"}
    THEN Fail(w, "InvalidFormat")
    ELSE IF o.fail = "write" \/ w.sysfs[p] = "absent" THEN Fail(w, "Io")
    ELSE Ok([w EXCEPT !.sysfs[p] =
                IF status = "Actived" THEN KPATCH_STATUS_ENABLED
                ELSE KPATCH_STATUS_DISABLED])

\* KernelPatchDriver::check_conflict_symbols: uuids of conflicting patches.
check_conflict_symbols(w, p) ==
    LET ts == classify_symbols(KSymbols[p])
    IN UNION {IF t \in DOMAIN w.patch_target_map
              THEN {r.uuid : r \in get_conflicts(w.patch_target_map[t], ts[t])}
              ELSE {} : t \in DOMAIN ts}

\* KernelPatchDriver::check_override_symbols: uuids of overriding patches.
check_override_symbols(w, p) ==
    LET ts == classify_symbols(KSymbols[p])
    IN UNION {IF t \in DOMAIN w.patch_target_map
              THEN {r.uuid : r \in get_overrides(w.patch_target_map[t], p, ts[t])}
              ELSE {} : t \in DOMAIN ts}

\* KernelPatchDriver::add_patch_symbols
add_patch_symbols(w, p) ==
    LET ts == classify_symbols(KSymbols[p])
        old == w.patch_target_map
    IN [w EXCEPT !.patch_target_map =
          [t \in DOMAIN old \cup DOMAIN ts |->
              IF t \in DOMAIN ts
              THEN add_symbols(IF t \in DOMAIN old THEN old[t] ELSE {}, p, ts[t])
              ELSE old[t]]]

remove_patch_symbols_KeepRecords(w, p) == w

\* KernelPatchDriver::remove_patch_symbols
remove_patch_symbols(w, p) ==
    LET ts == classify_symbols(KSymbols[p])
        old == w.patch_target_map
    IN [w EXCEPT !.patch_target_map =
          [t \in DOMAIN old |->
              IF t \in DOMAIN ts THEN remove_symbols(old[t], p, ts[t])
              ELSE old[t]]]

\* KernelPatchDriver::check_confliction
check_confliction(w, p, flag) ==
    IF flag = "Force" THEN "ok"
    ELSE IF check_conflict_symbols(w, p) # {} THEN "Conflict" ELSE "ok"

\* <KernelPatchDriver as PatchDriver>::check
KernelCheck(w, p, flag, o) ==
    IF o.fail = "compat" THEN "Incompatible"
    ELSE IF o.fail = "consistency" THEN "ConsistencyFailure"
    ELSE IF o.fail = "dependency" THEN "Incompatible"
    ELSE check_confliction(w, p, flag)

\* <KernelPatchDriver as PatchDriver>::apply: insmod loads the module, whose
\* sysfs entry then reads "0".
KernelApply(w, p, o) ==
    IF o.fail = "insmod" THEN Fail(w, "DriverFailure")
    ELSE Ok([w EXCEPT !.sysfs[p] = KPATCH_STATUS_DISABLED])

\* <KernelPatchDriver as PatchDriver>::remove: rmmod unloads the module.
KernelRemove(w, p, o) ==
    IF o.fail = "rmmod" THEN Fail(w, "DriverFailure")
    ELSE Ok([w EXCEPT !.sysfs[p] = "absent"])

\* <KernelPatchDriver as PatchDriver>::active
KernelActive(w, p, flag, o) ==
    IF flag # "Force" /\ check_conflict_symbols(w, p) # {}
    THEN Fail(w, "Conflict")
    ELSE LET r == KernelSetPatchStatus(w, p, "Actived", o)
         IN IF r.err # "ok" THEN r ELSE Ok(add_patch_symbols(r.w, p))

KernelDeactive_NoOverrideCheck(w, p, flag, o) ==
    LET r == KernelSetPatchStatus(w, p, "Deactived", o)
    IN IF r.err # "ok" THEN r ELSE Ok(remove_patch_symbols(r.w, p))

\* <KernelPatchDriver as PatchDriver>::deactive
KernelDeactive(w, p, flag, o) ==
    IF flag # "Force" /\ check_override_symbols(w, p) # {}
    THEN Fail(w, "Override")
    ELSE LET r == KernelSetPatchStatus(w, p, "Deactived", o)
         IN IF r.err # "ok" THEN r ELSE Ok(remove_patch_symbols(r.w, p))

(***************************************************************************)
(* User patch driver                                                       *)
(***************************************************************************)
\* PatchTarget::default (upatch/target.rs): no patch attached, no function.
DefaultPatchTarget == [patches |-> <<>>, functions |-> {}]

\* PatchTarget::is_patched: at least one patch is attached to the target.
is_patched(target) == DOMAIN target.patches # {}

\* PatchEntity::new
NewPatchEntity == [active_pids |-> {}, ignored_pids |-> {}]

\* PatchEntity::need_actived / need_ignored / need_deactived
need_actived(entity, process_list) ==
    process_list \ (entity.active_pids \cup entity.ignored_pids)
need_ignored(entity, process_list) == process_list \cap entity.ignored_pids
need_deactived(entity, process_list) == process_list \cap entity.active_pids

\* PatchEntity::clean_dead_process
clean_dead_process(entity, process_list) ==
    [active_pids |-> entity.active_pids \cap process_list,
     ignored_pids |-> entity.ignored_pids \cap process_list]

\* PatchTarget::add_patch / remove_patch
add_patch(target, uuid, entity) ==
    [target EXCEPT !.patches =
        [u \in DOMAIN target.patches \cup {uuid} |->
            IF u = uuid THEN entity ELSE target.patches[u]]]
remove_patch(target, uuid) ==
    [target EXCEPT !.patches =
        [u \in DOMAIN target.patches \ {uuid} |-> target.patches[u]]]

\* PatchTarget::add_functions / remove_functions
add_functions(target, uuid, functions) ==
    [target EXCEPT !.functions =
        @ \cup {[uuid |-> uuid, func |-> f] : f \in functions}]
remove_functions(target, uuid, functions) ==
    [target EXCEPT !.functions =
        @ \ {[uuid |-> uuid, func |-> f] : f \in functions}]

\* UserPatchDriver::get_patch_status: a missing entry reads NotApplied.
UserGetPatchStatus(w, uuid) ==
    IF uuid \in DOMAIN w.status_map THEN w.status_map[uuid] ELSE "NotApplied"

\* UserPatchDriver::set_patch_status
UserSetPatchStatus(w, uuid, value) ==
    [w EXCEPT !.status_map =
        [u \in DOMAIN w.status_map \cup {uuid} |->
            IF u = uuid THEN value ELSE w.status_map[u]]]

\* UserPatchDriver::remove_patch_status
remove_patch_status(w, uuid) ==
    [w EXCEPT !.status_map =
        [u \in DOMAIN w.status_map \ {uuid} |-> w.status_map[u]]]

\* UserPatchDriver::add_patch_target
add_patch_target(w, p) ==
    LET t == TargetElf[p]
    IN IF t \in DOMAIN w.target_map THEN w
       ELSE [w EXCEPT !.target_map =
               [x \in DOMAIN w.target_map \cup {t} |->
                   IF x = t THEN DefaultPatchTarget ELSE w.target_map[x]]]

\* UserPatchDriver::remove_patch_target
remove_patch_target(w, p) ==
    LET t == TargetElf[p]
    IN IF t \in DOMAIN w.target_map /\ ~is_patched(w.target_map[t])
       THEN [w EXCEPT !.target_map =
               [x \in DOMAIN w.target_map \ {t} |-> w.target_map[x]]]
       ELSE w

\* UserPatchDriver::find_target_process: the live pids running target_elf.
\* "find": the metadata of target_elf or the listing of /proc fails (`?`);
\* "exe": /proc/<pid>/exe of some process cannot be read (`continue`);
\* "map_files": /proc/<pid>/map_files of some process whose exe is another
\* file cannot be listed (`?`).
find_target_process(w, target_elf, o) ==
    IF o.fail \in {"find", "map_files"} THEN [err |-> "Io", pids |-> {}]
    ELSE [err |-> "ok", pids |-> w.procs]

\* The status the injection module reports (upatch_status), as UpatchStatus.
upatch_status(w, p, o) ==
    IF o.fail = "status" THEN "Invalid"
    ELSE CASE UserGetPatchStatus(w, p) = "NotApplied" -> "NotApplied"
           [] UserGetPatchStatus(w, p) = "Deactived" -> "Deactived"
           [] OTHER -> "Active"

\* impl From<UpatchStatus> for PatchStatus
FromUpatchStatus(status) ==
    CASE status = "NotApplied" -> "NotApplied"
      [] status = "Deactived" -> "Deactived"
      [] status = "Active" -> "Actived"
      [] status = "Invalid" -> "Unknown"

\* UserPatchDriver::status
UserStatus(w, p, o) ==
    [err |-> "ok", status |-> FromUpatchStatus(upatch_status(w, p, o))]

\* UserPatchDriver::check
UserCheck(w, p, o) ==
    IF o.fail = "consistency" THEN "ConsistencyFailure" ELSE "ok"

\* UserPatchDriver::apply
UserApply(w, p, o) ==
    Ok(UserSetPatchStatus(add_patch_target(w, p), p, "Deactived"))

\* UserPatchDriver::remove
UserRemove(w, p, o) ==
    Ok(remove_patch_status(remove_patch_target(w, p), p))

UserActive_DropFailed(w, p, o) ==
    LET t == TargetElf[p]
        found == find_target_process(w, t, o)
    IN IF found.err # "ok" THEN Fail(w, found.err)
       ELSE IF t \notin DOMAIN w.target_map THEN Fail(w, "NoTarget")
       ELSE IF p \in DOMAIN w.target_map[t].patches THEN Fail(w, "AlreadyExist")
       ELSE
         LET todo == need_actived(NewPatchEntity, found.pids)
             succeeded == todo \cap o.ok_pids
             failed == todo \ o.ok_pids
             entity == [active_pids |-> succeeded, ignored_pids |-> {}]
         IN IF succeeded = {} THEN Fail(w, "DriverFailure")
            ELSE
              LET need_start_watch == ~is_patched(w.target_map[t])
                  w1 == [w EXCEPT !.target_map[t] =
                           add_functions(add_patch(@, p, entity), p, UFunctions[p])]
              IN IF need_start_watch /\ o.fail = "watch" THEN Fail(w1, "Io")
                 ELSE LET w2 == IF need_start_watch
                                THEN [w1 EXCEPT !.watched = @ \cup {t}]
                                ELSE w1
                      IN Ok(UserSetPatchStatus(w2, p, "Actived"))

\* UserPatchDriver::active
UserActive(w, p, o) ==
    LET t == TargetElf[p]
        found == find_target_process(w, t, o)
    IN IF found.err # "ok" THEN Fail(w, found.err)
       ELSE IF t \notin DOMAIN w.target_map THEN Fail(w, "NoTarget")
       ELSE IF p \in DOMAIN w.target_map[t].patches THEN Fail(w, "AlreadyExist")
       ELSE
         LET todo == need_actived(NewPatchEntity, found.pids)
             \* results of sys::active_patch, pid by pid
             succeeded == todo \cap o.ok_pids
             failed == todo \ o.ok_pids
             entity == [active_pids |-> succeeded, ignored_pids |-> failed]
         IN IF succeeded = {} THEN Fail(w, "DriverFailure")
            ELSE
              LET need_start_watch == ~is_patched(w.target_map[t])
                  w1 == [w EXCEPT !.target_map[t] =
                           add_functions(add_patch(@, p, entity), p, UFunctions[p])]
              IN IF need_start_watch /\ o.fail = "watch" THEN Fail(w1, "Io")
                 ELSE LET w2 == IF need_start_watch
                                THEN [w1 EXCEPT !.watched = @ \cup {t}]
                                ELSE w1
                      IN Ok(UserSetPatchStatus(w2, p, "Actived"))

UserDeactive_BailWhenAllFail(w, p, o) ==
    LET t == TargetElf[p]
        found == find_target_process(w, t, o)
    IN IF found.err # "ok" THEN Fail(w, found.err)
       ELSE IF t \notin DOMAIN w.target_map THEN Fail(w, "NoTarget")
       ELSE IF p \notin DOMAIN w.target_map[t].patches THEN Fail(w, "NoEntity")
       ELSE
         LET cleaned == clean_dead_process(w.target_map[t].patches[p], found.pids)
             ignore_list == need_ignored(cleaned, found.pids)
             todo == need_deactived(cleaned, found.pids) \ ignore_list
             succeeded == todo \cap o.ok_pids
             failed == todo \ o.ok_pids
             entity == [cleaned EXCEPT !.active_pids = @ \ succeeded]
             w1 == [w EXCEPT !.target_map[t].patches[p] = entity]
         IN IF failed # {} /\ succeeded = {} THEN Fail(w1, "DriverFailure")
            ELSE
              LET w2 == [w1 EXCEPT !.target_map[t] =
                           remove_functions(remove_patch(@, p), p, UFunctions[p])]
                  need_stop_watch == ~is_patched(w2.target_map[t])
              IN IF need_stop_watch /\ o.fail = "ignore" THEN Fail(w2, "Io")
                 ELSE LET w3 == IF need_stop_watch
                                THEN [w2 EXCEPT !.watched = @ \ {t}]
                                ELSE w2
                      IN Ok(UserSetPatchStatus(w3, p, "Deactived"))

\* UserPatchDriver::deactive
UserDeactive(w, p, o) ==
    LET t == TargetElf[p]
        found == find_target_process(w, t, o)
    IN IF found.err # "ok" THEN Fail(w, found.err)
       ELSE IF t \notin DOMAIN w.target_map THEN Fail(w, "NoTarget")
       ELSE IF p \notin DOMAIN w.target_map[t].patches THEN Fail(w, "NoEntity")
       ELSE
         LET cleaned == clean_dead_process(w.target_map[t].patches[p], found.pids)
             ignore_list == need_ignored(cleaned, found.pids)
             todo == need_deactived(cleaned, found.pids) \ ignore_list
             \* results of sys::deactive_patch, pid by pid
             succeeded == todo \cap o.ok_pids
             failed == todo \ o.ok_pids
             entity == [cleaned EXCEPT !.active_pids = @ \ succeeded]
             w1 == [w EXCEPT !.target_map[t].patches[p] = entity]
         IN IF failed # {} THEN Fail(w1, "DriverFailure")
            ELSE
              LET w2 == [w1 EXCEPT !.target_map[t] =
                           remove_functions(remove_patch(@, p), p, UFunctions[p])]
                  need_stop_watch == ~is_patched(w2.target_map[t])
              IN IF need_stop_watch /\ o.fail = "ignore" THEN Fail(w2, "Io")
                 ELSE LET w3 == IF need_stop_watch
                                THEN [w2 EXCEPT !.watched = @ \ {t}]
                                ELSE w2
                      IN Ok(UserSetPatchStatus(w3, p, "Deactived"))

(***************************************************************************)
(* Patch manager: status cache                                             *)
(***************************************************************************)
\* PatchManager::driver_get_patch_status (call_driver resolves the driver by
\* the kind of the patch)
driver_get_patch_status(w, p, o) ==
    IF PatchInfo[p].kind = "KernelPatch" THEN KernelGetPatchStatus(w, p, o)
    ELSE UserStatus(w, p, o)

set_patch_status_AllowUnknown(w, p, value) ==
    IF p \notin Uuids(w.entry_map) THEN Fail(w, "NotFound")
    ELSE Ok([w EXCEPT !.entry_map =
                [i \in DOMAIN w.entry_map |->
                    IF w.entry_map[i].uuid = p
                    THEN [w.entry_map[i] EXCEPT !.status = value]
                    ELSE w.entry_map[i]]])

\* PatchManager::set_patch_status
set_patch_status(w, p, value) ==
    IF value = "Unknown" THEN Fail(w, "InvalidStatus")
    ELSE IF p \notin Uuids(w.entry_map) THEN Fail(w, "NotFound")
    ELSE Ok([w EXCEPT !.entry_map =
                [i \in DOMAIN w.entry_map |->
                    IF w.entry_map[i].uuid = p
                    THEN [w.entry_map[i] EXCEPT !.status = value]
                    ELSE w.entry_map[i]]])

\* PatchManager::get_patch_status: [w, err, status]
get_patch_status(w, p, o) ==
    IF p \notin Uuids(w.entry_map)
    THEN [w |-> w, err |-> "NotFound", status |-> "Unknown"]
    ELSE LET cached == StatusOf(w.entry_map, p)
         IN IF cached # "Unknown"
            THEN [w |-> w, err |-> "ok", status |-> cached]
            ELSE LET d == driver_get_patch_status(w, p, o)
                 IN IF d.err # "ok"
                    THEN [w |-> w, err |-> d.err, status |-> "Unknown"]
                    ELSE LET r == set_patch_status(w, p, d.status)
                         IN [w |-> r.w, err |-> r.err,
                             status |-> IF r.err = "ok" THEN d.status
                                        ELSE "Unknown"]

(***************************************************************************)
(* Patch manager: transition primitives                                    *)
(***************************************************************************)
\* PatchManager::driver_apply_patch
driver_apply_patch(w, p, flag, o) ==
    LET kernel == PatchInfo[p].kind = "KernelPatch"
        checked == IF kernel THEN KernelCheck(w, p, flag, o)
                   ELSE UserCheck(w, p, o)
    IN IF checked # "ok" THEN Fail(w, checked)
       ELSE LET r == IF kernel THEN KernelApply(w, p, o) ELSE UserApply(w, p, o)
            IN IF r.err # "ok" THEN r
               ELSE set_patch_status(r.w, p, "Deactived")

\* PatchManager::driver_remove_patch
driver_remove_patch(w, p, flag, o) ==
    LET r == IF PatchInfo[p].kind = "KernelPatch" THEN KernelRemove(w, p, o)
             ELSE UserRemove(w, p, o)
    IN IF r.err # "ok" THEN r ELSE set_patch_status(r.w, p, "NotApplied")

\* PatchManager::driver_active_patch
driver_active_patch(w, p, flag, o) ==
    LET r == IF PatchInfo[p].kind = "KernelPatch"
             THEN KernelActive(w, p, flag, o)
             ELSE UserActive(w, p, o)
    IN IF r.err # "ok" THEN r ELSE set_patch_status(r.w, p, "Actived")

driver_deactive_patch_StatusFirst(w, p, flag, o) ==
    LET r == IF PatchInfo[p].kind = "KernelPatch"
             THEN KernelDeactive(w, p, flag, o)
             ELSE UserDeactive(w, p, o)
    IN [w |-> set_patch_status(r.w, p, "Deactived").w, err |-> r.err]

\* PatchManager::driver_deactive_patch
driver_deactive_patch(w, p, flag, o) ==
    LET r == IF PatchInfo[p].kind = "KernelPatch"
             THEN KernelDeactive(w, p, flag, o)
             ELSE UserDeactive(w, p, o)
    IN IF r.err # "ok" THEN r ELSE set_patch_status(r.w, p, "Deactived")

\* PatchManager::do_patch_accept
do_patch_accept(w, p, flag, o) == set_patch_status(w, p, "Accepted")

\* PatchManager::do_patch_decline
do_patch_decline(w, p, flag, o) == set_patch_status(w, p, "Actived")

\* The TransitionAction constants PATCH_APPLY .. PATCH_DECLINE, applied.
TransitionAction(action, w, p, flag, o) ==
    CASE action = "apply" -> driver_apply_patch(w, p, flag, o)
      [] action = "remove" -> driver_remove_patch(w, p, flag, o)
      [] action = "active" -> driver_active_patch(w, p, flag, o)
      [] action = "deactive" -> driver_deactive_patch(w, p, flag, o)
      [] action = "accept" -> do_patch_accept(w, p, flag, o)
      [] action = "decline" -> do_patch_decline(w, p, flag, o)

TRANSITION_MAP_Swapped ==
    (<<"NotApplied", "Deactived">> :> <<"apply">>)
    @@ (<<"NotApplied", "Actived">> :> <<"apply", "active">>)
    @@ (<<"NotApplied", "Accepted">> :> <<"apply", "active", "accept">>)
    @@ (<<"Deactived", "NotApplied">> :> <<"remove">>)
    @@ (<<"Deactived", "Actived">> :> <<"active">>)
    @@ (<<"Deactived", "Accepted">> :> <<"active", "accept">>)
    @@ (<<"Actived", "NotApplied">> :> <<"deactive", "remove">>)
    @@ (<<"Actived", "Deactived">> :> <<"deactive">>)
    @@ (<<"Actived", "Accepted">> :> <<"accept">>)
    @@ (<<"Accepted", "NotApplied">> :> <<"deactive", "decline", "remove">>)
    @@ (<<"Accepted", "Deactived">> :> <<"decline", "deactive">>)
    @@ (<<"Accepted", "Actived">> :> <<"decline">>)

\* TRANSITION_MAP
TRANSITION_MAP ==
    (<<"NotApplied", "Deactived">> :> <<"apply">>)
    @@ (<<"NotApplied", "Actived">> :> <<"apply", "active">>)
    @@ (<<"NotApplied", "Accepted">> :> <<"apply", "active", "accept">>)
    @@ (<<"Deactived", "NotApplied">> :> <<"remove">>)
    @@ (<<"Deactived", "Actived">> :> <<"active">>)
    @@ (<<"Deactived", "Accepted">> :> <<"active", "accept">>)
    @@ (<<"Actived", "NotApplied">> :> <<"deactive", "remove">>)
    @@ (<<"Actived", "Deactived">> :> <<"deactive">>)
    @@ (<<"Actived", "Accepted">> :> <<"accept">>)
    @@ (<<"Accepted", "NotApplied">> :> <<"decline", "deactive", "remove">>)
    @@ (<<"Accepted", "Deactived">> :> <<"decline", "deactive">>)
    @@ (<<"Accepted", "Actived">> :> <<"decline">>)

(***************************************************************************)
(* Patch manager: do_status_transition, one primitive per step             *)
(***************************************************************************)
NoCall ==
    [pc |-> "none", caller |-> "none", patch |-> "none", target |-> "Unknown",
     flag |-> "Normal", from |-> "Unknown", todo |-> <<>>, done |-> <<>>,
     err |-> "ok", ret |-> "Unknown"]

PostCheck_ReturnCurrent(c, w, o) ==
    LET g == get_patch_status(w, c.patch, o)
    IN IF g.err # "ok" THEN [c EXCEPT !.pc = "ret", !.err = g.err]
       ELSE [c EXCEPT !.pc = "ret", !.err = "ok", !.ret = g.status]

\* The final check of do_status_transition: the status must equal the
\* requested one, then it is returned.
PostCheck(c, w, o) ==
    LET g == get_patch_status(w, c.patch, o)
    IN IF g.err # "ok" THEN [c EXCEPT !.pc = "ret", !.err = g.err]
       ELSE IF g.status # c.target
            THEN [c EXCEPT !.pc = "ret", !.err = "NotReached"]
            ELSE [c EXCEPT !.pc = "ret", !.err = "ok", !.ret = g.status]

\* PatchManager::do_status_transition up to the first primitive: [w, call]
BeginCall(w, caller, p, status, flag, o) ==
    LET g == get_patch_status(w, p, o)
        c == [NoCall EXCEPT !.caller = caller, !.patch = p, !.target = status,
                            !.flag = flag, !.from = g.status]
    IN IF g.err # "ok"
       THEN [w |-> g.w, call |-> [c EXCEPT !.pc = "ret", !.err = g.err]]
       ELSE IF g.status = status
       THEN [w |-> g.w, call |-> [c EXCEPT !.pc = "ret", !.ret = status]]
       ELSE IF <<g.status, status>> \in DOMAIN TRANSITION_MAP
       THEN [w |-> g.w,
             call |-> [c EXCEPT !.pc = "run",
                                !.todo = TRANSITION_MAP[<<g.status, status>>]]]
       ELSE [w |-> g.w, call |-> PostCheck(c, g.w, o)]

SetWorld(w) ==
    /\ entry_map' = w.entry_map
    /\ sysfs' = w.sysfs
    /\ patch_target_map' = w.patch_target_map
    /\ status_map' = w.status_map
    /\ target_map' = w.target_map
    /\ watched' = w.watched

\* The external failures that can make a difference to a primitive.
PrimitiveOracles(action, p) ==
    LET kernel == PatchInfo[p].kind = "KernelPatch"
        fails ==
          CASE action = "apply" ->
                 IF kernel THEN {"none", "compat", "consistency", "dependency", "insmod"}
                 ELSE {"none", "consistency"}
            [] action = "remove" -> IF kernel THEN {"none", "rmmod"} ELSE {"none"}
            [] action = "active" ->
                 IF kernel THEN {"none", "write"}
                 ELSE {"none", "find", "exe", "map_files", "watch"}
            [] action = "deactive" ->
                 IF kernel THEN {"none", "write"}
                 ELSE {"none", "find", "exe", "map_files", "ignore"}
            [] OTHER -> {"none"}
        pids == IF ~kernel /\ action \in {"active", "deactive"}
                THEN SUBSET procs ELSE {{}}
    IN {o \in Oracles : o.fail \in fails /\ o.ok_pids \in pids}

\* One iteration of `for action in action_list`, and after the last one the
\* final status check.
CallStep ==
    /\ call.pc = "run"
    /\ \E o \in PrimitiveOracles(Head(call.todo), call.patch) :
         LET action == Head(call.todo)
             r == TransitionAction(action, World, call.patch, call.flag, o)
             c == [call EXCEPT !.todo = Tail(@), !.done = Append(@, action)]
         IN /\ SetWorld(r.w)
            /\ call' = IF r.err # "ok" THEN [c EXCEPT !.pc = "ret", !.err = r.err]
                       ELSE IF c.todo = <<>> THEN PostCheck(c, r.w, o)
                       ELSE c
            /\ forced' =
                 IF r.err = "ok" /\ call.patch \in KPatches
                    /\ action \in {"active", "deactive"}
                 THEN IF action = "active" /\ call.flag = "Force"
                      THEN forced \cup {call.patch}
                      ELSE forced \ {call.patch}
                 ELSE forced
    /\ UNCHANGED <<envVars, txn, restore, upatch, resolve>>

(***************************************************************************)
(* Patch manager: public operations run by transactions                    *)
(***************************************************************************)
TxnNames == {"apply", "remove", "active", "deactive", "accept"}

PublicOp_NoStatusCheck(name, w, p, o) ==
    LET g == get_patch_status(w, p, o)
        target == CASE name = "apply" -> "Actived"
                    [] name = "remove" -> "NotApplied"
                    [] name = "active" -> "Actived"
                    [] name = "deactive" -> "Deactived"
                    [] name = "accept" -> "Accepted"
    IN IF name \in {"apply", "remove"} THEN [w |-> w, err |-> "ok", target |-> target]
       ELSE [w |-> g.w, err |-> g.err, target |-> target]

\* PatchManager::apply_patch, remove_patch, active_patch, deactive_patch and
\* accept_patch up to their call of do_status_transition: [w, err, target]
PublicOp(name, w, p, o) ==
    LET g == get_patch_status(w, p, o)
    IN CASE name = "apply" -> [w |-> w, err |-> "ok", target |-> "Actived"]
         [] name = "remove" -> [w |-> w, err |-> "ok", target |-> "NotApplied"]
         [] name = "active" ->
              IF g.err # "ok" THEN [w |-> g.w, err |-> g.err, target |-> "Actived"]
              ELSE IF g.status = "NotApplied"
                   THEN [w |-> g.w, err |-> "InvalidTransition", target |-> "Actived"]
                   ELSE [w |-> g.w, err |-> "ok", target |-> "Actived"]
         [] name = "deactive" ->
              IF g.err # "ok" THEN [w |-> g.w, err |-> g.err, target |-> "Deactived"]
              ELSE IF g.status = "NotApplied"
                   THEN [w |-> g.w, err |-> "InvalidTransition", target |-> "Deactived"]
                   ELSE [w |-> g.w, err |-> "ok", target |-> "Deactived"]
         [] name = "accept" ->
              IF g.err # "ok" THEN [w |-> g.w, err |-> g.err, target |-> "Accepted"]
              ELSE IF g.status # "Actived"
                   THEN [w |-> g.w, err |-> "InvalidTransition", target |-> "Accepted"]
                   ELSE [w |-> g.w, err |-> "ok", target |-> "Accepted"]

(***************************************************************************)
(* Patch manager: matching                                                 *)
(***************************************************************************)
\* identifier matches entity_name, patch_name or target_name of the patch
is_matched(identifier, u) ==
    \/ identifier = PatchInfo[u].entity_name
    \/ identifier = PatchInfo[u].patch_name
    \/ identifier = PatchInfo[u].target_name

RECURSIVE find_patch_by_name_Reversed(_, _)
find_patch_by_name_Reversed(em, identifier) ==
    IF em = <<>> THEN <<>>
    ELSE find_patch_by_name_Reversed(Tail(em), identifier)
         \o (IF is_matched(identifier, Head(em).uuid) THEN <<Head(em).uuid>>
             ELSE <<>>)

RECURSIVE find_patch_by_name(_, _)
\* PatchManager::find_patch_by_name (an empty result is an error)
find_patch_by_name(em, identifier) ==
    IF em = <<>> THEN <<>>
    ELSE (IF is_matched(identifier, Head(em).uuid) THEN <<Head(em).uuid>>
          ELSE <<>>)
         \o find_patch_by_name(Tail(em), identifier)

\* PatchManager::match_patch: the uuid first, then the names
match_patch(em, identifier) ==
    IF identifier \in Uuids(em) THEN <<identifier>>
    ELSE find_patch_by_name(em, identifier)

(***************************************************************************)
(* Transaction engine                                                      *)
(***************************************************************************)
NoResult == [kind |-> "none", root |-> <<>>, context |-> "none"]

IdleTxn ==
    [pc |-> "idle", name |-> "none", identifier |-> "none", flag |-> "Normal",
     patch_list |-> <<>>, finish_list |-> <<>>, cur |-> "none",
     old_status |-> "Unknown", err |-> <<>>, result |-> NoResult,
     matched |-> <<>>, before |-> <<>>]

IdleRestore == [pc |-> "idle", flag |-> "Normal", list |-> <<>>, err |-> "ok"]

\* No handler holds the manager: the RPC worker is free.
Idle ==
    /\ txn.pc \in {"idle", "done"}
    /\ restore.pc \in {"idle", "done"}
    /\ call.pc = "none"

\* The status get_patch_status reports for p when no external call fails
\* ("Unknown" when the driver cannot tell).
Resolved(w, p) ==
    get_patch_status(w, p, NoFailure).status

\* The error returned by invoke() when start() failed with e and the
\* rollback, if any, succeeded: Err(e.context("... failed")).
StartError(e) == [kind |-> "err", root |-> e, context |-> "failed"]

\* The error returned by invoke() when start() failed with t.err and
\* rollback() failed with e:
\* self.rollback().with_context(|| "... rollback failed")?
RollbackError(t, e) ==
    [kind |-> "err", root |-> e, context |-> "rollback failed"]

\* start() returned Err(e): invoke() rolls back when finish_list is not empty.
StartFailed(t, e) ==
    IF t.finish_list = <<>>
    THEN [t EXCEPT !.pc = "done", !.err = e, !.result = StartError(e)]
    ELSE [t EXCEPT !.pc = "rollback", !.err = e]

TxnInvoke_ManagerLockOnly(name, identifier, flag) ==
    /\ txn.pc \in {"idle", "done", "rollback"}
    /\ restore.pc \in {"idle", "done"}
    /\ call.pc = "none"
    /\ LET patch_list == match_patch(entry_map, identifier)
           t == [IdleTxn EXCEPT !.name = name, !.identifier = identifier,
                                !.flag = flag]
       IN txn' = IF patch_list = <<>>
                 THEN [t EXCEPT !.pc = "done",
                                !.err = <<identifier, "NotFound">>,
                                !.result = StartError(<<identifier, "NotFound">>)]
                 ELSE [t EXCEPT !.pc = "loop", !.patch_list = patch_list,
                                !.matched = patch_list,
                                !.before = [i \in DOMAIN patch_list |->
                                              Resolved(World, patch_list[i])]]
    /\ UNCHANGED <<worldVars, envVars, call, restore, forced, upatch, resolve>>

\* PatchTransaction::invoke, up to the loop of start().
TxnInvoke(name, identifier, flag) ==
    /\ Idle
    /\ LET patch_list == match_patch(entry_map, identifier)
           t == [IdleTxn EXCEPT !.name = name, !.identifier = identifier,
                                !.flag = flag]
       IN txn' = IF patch_list = <<>>
                 THEN [t EXCEPT !.pc = "done",
                                !.err = <<identifier, "NotFound">>,
                                !.result = StartError(<<identifier, "NotFound">>)]
                 ELSE [t EXCEPT !.pc = "loop", !.patch_list = patch_list,
                                !.matched = patch_list,
                                !.before = [i \in DOMAIN patch_list |->
                                              Resolved(World, patch_list[i])]]
    /\ UNCHANGED <<worldVars, envVars, call, restore, forced, upatch, resolve>>

\* One iteration of `while let Some(patch) = patch_list.pop()` in start(), up
\* to the first primitive of the action's transition.
TxnLoop ==
    /\ txn.pc = "loop"
    /\ call.pc = "none"
    /\ IF txn.patch_list = <<>>
       THEN /\ txn' = [txn EXCEPT !.pc = "done",
                                  !.result = [NoResult EXCEPT !.kind = "ok"]]
            /\ UNCHANGED <<worldVars, call>>
       ELSE \E o \in StatusOracles :
              LET n == Len(txn.patch_list)
                  p == txn.patch_list[n]
                  t == [txn EXCEPT !.patch_list = SubSeq(@, 1, n - 1), !.cur = p]
                  g == get_patch_status(World, p, o)
                  a == PublicOp(txn.name, g.w, p, o)
                  b == BeginCall(a.w, "txn", p, a.target, txn.flag, o)
              IN IF g.err # "ok"
                 THEN /\ SetWorld(g.w)
                      /\ txn' = StartFailed(t, <<p, g.err>>)
                      /\ call' = call
                 ELSE IF a.err # "ok"
                 THEN /\ SetWorld(a.w)
                      /\ txn' = StartFailed([t EXCEPT !.old_status = g.status],
                                            <<p, a.err>>)
                      /\ call' = call
                 ELSE /\ SetWorld(b.w)
                      /\ txn' = [t EXCEPT !.pc = "wait", !.old_status = g.status]
                      /\ call' = b.call
    /\ UNCHANGED <<envVars, restore, forced, upatch, resolve>>

\* The action returned: record the patch, or fail start().
TxnResume ==
    /\ txn.pc = "wait"
    /\ call.pc = "ret"
    /\ txn' = IF call.err = "ok"
              THEN [txn EXCEPT !.pc = "loop",
                               !.finish_list =
                                   Append(@, <<txn.cur, txn.old_status>>)]
              ELSE StartFailed(txn, <<txn.cur, call.err>>)
    /\ call' = NoCall
    /\ UNCHANGED <<worldVars, envVars, restore, forced, upatch, resolve>>

\* One iteration of `while let Some((patch, status)) = finish_list.pop()` in
\* rollback(), up to the first primitive of the transition.
TxnRollback ==
    /\ txn.pc = "rollback"
    /\ call.pc = "none"
    /\ IF txn.finish_list = <<>>
       THEN /\ txn' = [txn EXCEPT !.pc = "done", !.result = StartError(txn.err)]
            /\ UNCHANGED <<worldVars, call>>
       ELSE \E o \in StatusOracles, flag \in Flags :
              LET n == Len(txn.finish_list)
                  rec == txn.finish_list[n]
                  b == BeginCall(World, "rollback", rec[1], rec[2], flag, o)
              IN /\ SetWorld(b.w)
                 /\ txn' = [txn EXCEPT !.pc = "rbwait",
                                       !.finish_list = SubSeq(@, 1, n - 1)]
                 /\ call' = b.call
    /\ UNCHANGED <<envVars, restore, forced, upatch, resolve>>

\* The rollback transition returned: go on, or fail invoke() with its error.
TxnRollbackResume ==
    /\ txn.pc = "rbwait"
    /\ call.pc = "ret"
    /\ txn' = IF call.err = "ok" THEN [txn EXCEPT !.pc = "rollback"]
              ELSE [txn EXCEPT !.pc = "done",
                               !.result = RollbackError(txn, <<call.patch, call.err>>)]
    /\ call' = NoCall
    /\ UNCHANGED <<worldVars, envVars, restore, forced, upatch, resolve>>

(***************************************************************************)
(* Scanning, status queries, persistence                                   *)
(***************************************************************************)
\* KernelPatchExt::new: resolve_patch_file(..).unwrap() panics when the
\* module of the patch root cannot be resolved.
KernelPatchExt_new(root) ==
    IF root \in BadElf THEN "panic" ELSE "ok"

\* Patch::read_from: the patch of a patch root (its uuid), an error when the
\* metadata cannot be parsed; the extension of a kernel patch is built by
\* KernelPatchExt::new.
read_from(root) ==
    IF root \in BadMetadata THEN [kind |-> "err", uuid |-> "none"]
    ELSE IF root \in BadElf
    THEN [kind |-> KernelPatchExt_new(root), uuid |-> "none"]
    ELSE IF root \in SameUuidRoots THEN [kind |-> "ok", uuid |-> "k1"]
    ELSE [kind |-> "ok", uuid |-> root]

RECURSIVE scan_patches(_, _)
\* PatchManager::scan_patches: every patch found on disk, as an Unknown
\* entry holding the patch read from its root; a root that cannot be read is
\* logged and skipped; a panic leaves the function without a result.
scan_patches(order, on_disk) ==
    IF order = <<>> THEN [panic |-> FALSE, list |-> <<>>]
    ELSE IF Head(order) \notin on_disk THEN scan_patches(Tail(order), on_disk)
    ELSE LET read_result == read_from(Head(order))
             rest == scan_patches(Tail(order), on_disk)
         IN CASE read_result.kind = "panic" -> [panic |-> TRUE, list |-> <<>>]
              [] read_result.kind = "err" -> rest
              [] OTHER ->
                   [rest EXCEPT !.list =
                       <<[uuid |-> read_result.uuid, patch |-> Head(order),
                          status |-> "Unknown"]>> \o @]

RECURSIVE AddNewPatches_Replace(_, _)
AddNewPatches_Replace(em, found) ==
    IF found = <<>> THEN em
    ELSE AddNewPatches_Replace(
             IF Head(found).uuid \in Uuids(em)
             THEN [i \in DOMAIN em |-> IF em[i].uuid = Head(found).uuid
                                       THEN Head(found) ELSE em[i]]
             ELSE Append(em, Head(found)),
             Tail(found))

RECURSIVE AddNewPatches(_, _)
\* The `Add new patches` loop of rescan: entries already present are kept.
AddNewPatches(em, found) ==
    IF found = <<>> THEN em
    ELSE AddNewPatches(IF Head(found).uuid \in Uuids(em) THEN em
                       ELSE Append(em, Head(found)),
                       Tail(found))

rescan_NoSort(em, on_disk) ==
    LET found == scan_patches(ScanOrder, on_disk)
    IN IF found.panic THEN em ELSE AddNewPatches(em, found.list)

\* PatchManager::rescan: the entry map it leaves (the one it found when
\* scan_patches panics, the map being written after the scan only).
rescan(em, on_disk) ==
    LET found == scan_patches(ScanOrder, on_disk)
    IN IF found.panic THEN em
       ELSE SortByEntityName(AddNewPatches(em, found.list))

\* RPC rescan()
Rescan ==
    /\ Idle
    /\ entry_map' = rescan(entry_map, disk)
    /\ call' = IF scan_patches(ScanOrder, disk).panic
               THEN [NoCall EXCEPT !.pc = "panic", !.caller = "rescan"]
               ELSE call
    /\ UNCHANGED <<sysfs, patch_target_map, status_map, target_map, watched,
                   envVars, txn, restore, forced, upatch, resolve>>

\* A patch package is installed: its patch root appears under patches/.
Install(p) ==
    /\ p \notin disk
    /\ disk' = disk \cup {p}
    /\ UNCHANGED <<worldVars, status_file, procs, call, txn, restore, forced, upatch, resolve>>

\* A patch package is uninstalled: its patch root leaves patches/.
Uninstall(p) ==
    /\ p \in disk
    /\ disk' = disk \ {p}
    /\ UNCHANGED <<worldVars, status_file, procs, call, txn, restore, forced, upatch, resolve>>

\* RPC get_status(patch)
GetStatus(p) ==
    /\ Idle
    /\ p \in Uuids(entry_map)
    /\ \E o \in StatusOracles : SetWorld(get_patch_status(World, p, o).w)
    /\ UNCHANGED <<envVars, call, txn, restore, forced, upatch, resolve>>

RECURSIVE UpdateAll(_, _, _)
\* The `Updating all patch status` loop of save_patch_status; `failing` are
\* the patches whose driver cannot be queried.  [w, err]
UpdateAll(w, list, failing) ==
    IF list = <<>> THEN Ok(w)
    ELSE LET g == get_patch_status(w, Head(list),
                     [fail |-> IF Head(list) \in failing THEN "status" ELSE "none",
                      ok_pids |-> {}])
         IN IF g.err # "ok" THEN Fail(g.w, g.err)
            ELSE UpdateAll(g.w, Tail(list), failing)

\* The patch_status file: missing, unreadable, or a {uuid -> status} map.
NoStatusFile == [kind |-> "absent", map |-> <<>>]
CorruptStatusFile == [kind |-> "corrupt", map |-> <<>>]
StatusFile(map) == [kind |-> "ok", map |-> map]

\* The status map serialized by save_patch_status.
StatusMapOf(em) == [u \in Uuids(em) |-> StatusOf(em, u)]

\* PatchManager::get_patch_list
get_patch_list(em) == [i \in DOMAIN em |-> em[i].uuid]

save_patch_status_NoUpdate(w, failing) ==
    [w |-> w, err |-> "ok", file |-> StatusFile(StatusMapOf(w.entry_map))]

\* PatchManager::save_patch_status: [w, err, file]
save_patch_status(w, failing) ==
    LET r == UpdateAll(w, get_patch_list(w.entry_map), failing)
    IN IF r.err # "ok" THEN [w |-> r.w, err |-> r.err, file |-> NoStatusFile]
       ELSE [w |-> r.w, err |-> "ok",
             file |-> StatusFile(StatusMapOf(r.w.entry_map))]

\* RPC save()
Save ==
    /\ Idle
    /\ \E failing \in SUBSET Uuids(entry_map) :
         LET r == save_patch_status(World, failing)
         IN /\ SetWorld(r.w)
            /\ status_file' = IF r.err = "ok" THEN r.file ELSE status_file
    /\ UNCHANGED <<disk, procs, call, txn, restore, forced, upatch, resolve>>

\* Ord for Patch, used to break ties between equal statuses.
PatchRank(u) ==
    CASE u = "k1" -> 1 [] u = "k2" -> 2 [] u = "k3" -> 3
      [] u = "u1" -> 4 [] u = "u2" -> 5

RestoreLess_Descending(l, r) ==
    \/ StatusRank[l[2]] > StatusRank[r[2]]
    \/ StatusRank[l[2]] = StatusRank[r[2]] /\ PatchRank(l[1]) < PatchRank(r[1])

\* The comparison closure given to restore_list.sort_by
RestoreLess(l, r) ==
    \/ StatusRank[l[2]] < StatusRank[r[2]]
    \/ StatusRank[l[2]] = StatusRank[r[2]] /\ PatchRank(l[1]) < PatchRank(r[1])

RECURSIVE SortRestoreList(_)
\* restore_list.sort_by(..), from the unordered entries of the status map
SortRestoreList(entries) ==
    IF entries = {} THEN <<>>
    ELSE LET first == CHOOSE e \in entries :
                        \A x \in entries \ {e} : RestoreLess(e, x)
         IN <<first>> \o SortRestoreList(entries \ {first})

restore_list_NoFilter(em, map, accepted_only) ==
    SortRestoreList({<<u, map[u]>> : u \in
        {x \in DOMAIN map : x \in Uuids(em)}})

\* The filter_map of restore_patch_status: entries of unknown patches are
\* dropped, and with accepted_only every entry that is not Accepted.
restore_list(em, map, accepted_only) ==
    SortRestoreList({<<u, map[u]>> : u \in
        {x \in DOMAIN map : /\ x \in Uuids(em)
                             /\ (accepted_only => map[x] = "Accepted")}})

RestoreBegin_MissingFileIsError(accepted_only, flag) ==
    /\ Idle
    /\ restore' =
         IF status_file.kind \in {"absent", "corrupt"}
         THEN [IdleRestore EXCEPT !.pc = "done", !.err = "ReadFailed"]
         ELSE [IdleRestore EXCEPT
                  !.pc = "loop", !.flag = flag,
                  !.list = restore_list(entry_map, status_file.map, accepted_only)]
    /\ UNCHANGED <<worldVars, envVars, call, txn, forced, upatch, resolve>>

\* PatchManager::restore_patch_status, up to the replay loop.
RestoreBegin(accepted_only, flag) ==
    /\ Idle
    /\ restore' =
         CASE status_file.kind = "absent" -> [IdleRestore EXCEPT !.pc = "done"]
           [] status_file.kind = "corrupt" ->
                [IdleRestore EXCEPT !.pc = "done", !.err = "ReadFailed"]
           [] OTHER ->
                [IdleRestore EXCEPT
                    !.pc = "loop", !.flag = flag,
                    !.list = restore_list(entry_map, status_file.map, accepted_only)]
    /\ UNCHANGED <<worldVars, envVars, call, txn, forced, upatch, resolve>>

\* One iteration of `for (patch, target_status) in restore_list`, up to the
\* first primitive of the transition.
RestoreLoop ==
    /\ restore.pc = "loop"
    /\ call.pc = "none"
    /\ IF restore.list = <<>>
       THEN /\ restore' = [restore EXCEPT !.pc = "done"]
            /\ UNCHANGED <<worldVars, call>>
       ELSE \E o \in StatusOracles :
              LET rec == Head(restore.list)
                  b == BeginCall(World, "restore", rec[1], rec[2], restore.flag, o)
              IN /\ SetWorld(b.w)
                 /\ restore' = [restore EXCEPT !.pc = "wait", !.list = Tail(@)]
                 /\ call' = b.call
    /\ UNCHANGED <<envVars, txn, forced, upatch, resolve>>

RestoreResume_ContinueOnError ==
    /\ restore.pc = "wait"
    /\ call.pc = "ret"
    /\ restore' = IF call.err = "ok" THEN [restore EXCEPT !.pc = "loop"]
                  ELSE [restore EXCEPT !.pc = "loop", !.err = call.err]
    /\ call' = NoCall
    /\ UNCHANGED <<worldVars, envVars, txn, forced, upatch, resolve>>

\* The transition returned: `?` ends the restore at the first error.
RestoreResume ==
    /\ restore.pc = "wait"
    /\ call.pc = "ret"
    /\ restore' = IF call.err = "ok" THEN [restore EXCEPT !.pc = "loop"]
                  ELSE [restore EXCEPT !.pc = "done", !.err = call.err]
    /\ call' = NoCall
    /\ UNCHANGED <<worldVars, envVars, txn, forced, upatch, resolve>>

(***************************************************************************)
(* Processes of the user target                                            *)
(***************************************************************************)
ProcSpawn(pid) ==
    /\ pid \notin procs
    /\ procs' = procs \cup {pid}
    /\ UNCHANGED <<worldVars, disk, status_file, call, txn, restore, forced, upatch, resolve>>

ProcExit(pid) ==
    /\ pid \in procs
    /\ procs' = procs \ {pid}
    /\ UNCHANGED <<worldVars, disk, status_file, call, txn, restore, forced, upatch, resolve>>

(***************************************************************************)
(* User patch monitor                                                      *)
(***************************************************************************)
ScanEntity_KeepFailedActive(entity, process_list, ok_pids) ==
    LET cleaned == clean_dead_process(entity, process_list)
        need == need_actived(cleaned, process_list)
        ignore_list == need_ignored(cleaned, process_list)
        called == need \ ignore_list
    IN [entity |-> [active_pids |-> cleaned.active_pids \cup called,
                    ignored_pids |-> cleaned.ignored_pids \cup (called \ ok_pids)],
        called |-> called]

\* The scan of one attached patch in patch_new_process; ok_pids are the
\* pids on which sys::active_patch succeeds.  [entity, called]
ScanEntity_NoCleaning(entity, process_list, ok_pids) ==
    LET need == need_actived(entity, process_list)
        ignore_list == need_ignored(entity, process_list)
        called == need \ ignore_list
    IN [entity |-> [active_pids |-> entity.active_pids \cup (called \cap ok_pids),
                    ignored_pids |-> entity.ignored_pids \cup (called \ ok_pids)],
        called |-> called]

\* One iteration of `for (patch_uuid, patch_entity) in all_patches()` in
\* patch_new_process; ok_pids are the pids on which sys::active_patch
\* succeeds.  [entity, called]
ScanEntity(entity, process_list, ok_pids) ==
    LET cleaned == clean_dead_process(entity, process_list)
        need == need_actived(cleaned, process_list)
        ignore_list == need_ignored(cleaned, process_list)
        called == need \ ignore_list
    IN [entity |-> [active_pids |-> cleaned.active_pids \cup (called \cap ok_pids),
                    ignored_pids |-> cleaned.ignored_pids \cup (called \ ok_pids)],
        called |-> called]

\* UserPatchDriver::patch_new_process; ok[u] are the pids on which
\* sys::active_patch succeeds for patch u.  [w, called]
patch_new_process(w, target_elf, fail, ok) ==
    LET found == find_target_process(w, target_elf, [fail |-> fail, ok_pids |-> {}])
    IN IF found.err # "ok" THEN [w |-> w, called |-> {}]
       ELSE IF target_elf \notin DOMAIN w.target_map THEN [w |-> w, called |-> {}]
       ELSE LET patches == w.target_map[target_elf].patches
                scan == [u \in DOMAIN patches |->
                            ScanEntity(patches[u], found.pids, ok[u])]
            IN [w |-> [w EXCEPT !.target_map[target_elf].patches =
                          [u \in DOMAIN patches |-> scan[u].entity]],
                called |-> {x \in UPatches \X Pids :
                               x[1] \in DOMAIN patches /\ x[2] \in scan[x[1]].called}]

\* The results of sys::active_patch that can make a difference to a scan:
\* those on the pids a patch attached to the target has not treated.
MonitorOracles(target_elf, fail) ==
    {ok \in [UPatches -> SUBSET procs] :
        \A u \in UPatches :
           IF /\ fail \in {"none", "exe"}
              /\ target_elf \in DOMAIN target_map
              /\ u \in DOMAIN target_map[target_elf].patches
           THEN ok[u] \cap (target_map[target_elf].patches[u].active_pids \cup
                            target_map[target_elf].patches[u].ignored_pids) = {}
           ELSE ok[u] = {}}

\* The monitor fires for a watched target and runs the callback.
MonitorScan(target_elf) ==
    /\ target_elf \in watched
    /\ \E fail \in {"none", "find", "exe", "map_files"} :
         \E ok \in MonitorOracles(target_elf, fail) :
            SetWorld(patch_new_process(World, target_elf, fail, ok).w)
    /\ UNCHANGED <<envVars, call, txn, restore, forced, upatch, resolve>>

(***************************************************************************)
(* The target_map lock: active and deactive statement by statement, next   *)
(* to the monitor thread                                                   *)
(***************************************************************************)
NoDriverOp ==
    [name |-> "none", patch |-> "none", pc |-> 0, found |-> {},
     need_watch |-> FALSE, err |-> "ok", watched |-> {}, status_map |-> <<>>]

NoMonitorCallback == [pc |-> "idle", target |-> "none", found |-> {}]

\* guard: the holder of the target_map write guard; mutex: the holder of the
\* monitor's own lock; op: the driver call in progress; monitor: the
\* monitor thread.
NoUpatch ==
    [guard |-> "free", mutex |-> "free", op |-> NoDriverOp,
     monitor |-> NoMonitorCallback]

ActiveSteps_WatchUnderGuard ==
    <<"find_target_process", "target_map.write", "body", "monitor",
      "drop", "set_patch_status">>

\* The statements of UserPatchDriver::active, in program order.
ActiveSteps ==
    <<"find_target_process", "target_map.write", "body", "drop",
      "monitor", "set_patch_status">>

\* The statements of UserPatchDriver::deactive, in program order.
DeactiveSteps ==
    <<"find_target_process", "target_map.write", "body", "drop",
      "monitor", "set_patch_status">>

DriverSteps(name) == IF name = "active" THEN ActiveSteps ELSE DeactiveSteps

\* `return` from active or deactive: a guard still held goes out of scope.
DriverReturn(up) ==
    [up EXCEPT !.op = NoDriverOp,
               !.guard = IF @ = "driver" THEN "free" ELSE @]

\* The RPC worker calls active or deactive on a user patch.
DriverCall(name, p) ==
    /\ upatch.op.pc = 0
    /\ upatch' = [upatch EXCEPT !.op = [NoDriverOp EXCEPT !.name = name,
                                                         !.patch = p,
                                                         !.pc = 1]]
    /\ UNCHANGED <<worldVars, envVars, call, txn, restore, forced, resolve>>

\* The RPC worker calls apply: add_patch_target takes the guard for the
\* insertion and gives it back.
DriverApply(p) ==
    /\ upatch.op.pc = 0
    /\ upatch.guard = "free"
    /\ SetWorld(UserApply(World, p, [fail |-> "none", ok_pids |-> {}]).w)
    /\ UNCHANGED <<envVars, call, txn, restore, forced, upatch, resolve>>

\* The next statement of the active or deactive in progress.
DriverStep ==
    /\ upatch.op.pc > 0
    /\ LET op == upatch.op
           t == TargetElf[op.patch]
           step == DriverSteps(op.name)[op.pc]
           next == [upatch EXCEPT !.op.pc = @ + 1]
       IN CASE step = "find_target_process" ->
                 /\ \E fail \in {"none", "find", "exe", "map_files"} :
                      LET found == find_target_process(
                                       World, t, [fail |-> fail, ok_pids |-> {}])
                      IN upatch' = IF found.err # "ok"
                                   THEN DriverReturn(upatch)
                                   ELSE [next EXCEPT !.op.found = found.pids]
                 /\ UNCHANGED worldVars
            [] step = "target_map.write" ->
                 /\ upatch.guard = "free"
                 /\ upatch' = [next EXCEPT !.guard = "driver"]
                 /\ UNCHANGED worldVars
            [] step = "body" ->
                 /\ \E fail \in {"none", IF op.name = "active" THEN "watch"
                                                               ELSE "ignore"},
                       ok_pids \in SUBSET op.found :
                      LET o == [fail |-> fail, ok_pids |-> ok_pids]
                          w == [World EXCEPT !.procs = op.found]
                          r == IF op.name = "active" THEN UserActive(w, op.patch, o)
                               ELSE UserDeactive(w, op.patch, o)
                      IN /\ target_map' = r.w.target_map
                         /\ upatch' =
                              IF r.err \notin {"ok", "Io"}
                              THEN DriverReturn(upatch)
                              ELSE [next EXCEPT
                                      !.op.found = {},
                                      !.op.need_watch =
                                          IF op.name = "active"
                                          THEN ~is_patched(target_map[t])
                                          ELSE ~is_patched(r.w.target_map[t]),
                                      !.op.err = r.err,
                                      !.op.watched = r.w.watched,
                                      !.op.status_map = r.w.status_map]
                 /\ UNCHANGED <<entry_map, sysfs, patch_target_map, status_map,
                                watched>>
            [] step = "drop" ->
                 /\ upatch' = [next EXCEPT !.guard = "free"]
                 /\ UNCHANGED worldVars
            [] step = "monitor" ->
                 IF ~op.need_watch
                 THEN upatch' = next /\ UNCHANGED worldVars
                 ELSE /\ upatch.mutex = "free"
                      /\ watched' = op.watched
                      /\ upatch' = IF op.err # "ok" THEN DriverReturn(upatch)
                                   ELSE next
                      /\ UNCHANGED <<entry_map, sysfs, patch_target_map,
                                     status_map, target_map>>
            [] step = "set_patch_status" ->
                 /\ status_map' = op.status_map
                 /\ upatch' = DriverReturn(upatch)
                 /\ UNCHANGED <<entry_map, sysfs, patch_target_map, target_map,
                                watched>>
    /\ UNCHANGED <<envVars, call, txn, restore, forced, resolve>>

\* A notification for a watched target: the monitor thread takes its lock
\* and enters the callback, which enumerates the processes.
MonitorEvent(target_elf) ==
    /\ upatch.monitor.pc = "idle"
    /\ target_elf \in watched
    /\ upatch.mutex = "free"
    /\ upatch' = [upatch EXCEPT !.mutex = "monitor",
                                !.monitor = [pc |-> "callback",
                                             target |-> target_elf,
                                             found |-> procs]]
    /\ UNCHANGED <<worldVars, envVars, call, txn, restore, forced, resolve>>

\* `let mut target_map = target_map.write();` in patch_new_process
MonitorLock ==
    /\ upatch.monitor.pc = "callback"
    /\ upatch.guard = "free"
    /\ upatch' = [upatch EXCEPT !.guard = "monitor", !.monitor.pc = "scan"]
    /\ UNCHANGED <<worldVars, envVars, call, txn, restore, forced, resolve>>

\* The results of sys::active_patch that can make a difference to the scan
\* of the callback in progress.
CallbackOracles ==
    LET t == upatch.monitor.target
    IN {ok \in [UPatches -> SUBSET upatch.monitor.found] :
          \A u \in UPatches :
             IF t \in DOMAIN target_map /\ u \in DOMAIN target_map[t].patches
             THEN ok[u] \cap (target_map[t].patches[u].active_pids \cup
                              target_map[t].patches[u].ignored_pids) = {}
             ELSE ok[u] = {}}

\* The scan under the guard, and the return of the callback.
MonitorCallback ==
    /\ upatch.monitor.pc = "scan"
    /\ \E ok \in CallbackOracles :
         SetWorld(patch_new_process([World EXCEPT !.procs = upatch.monitor.found],
                                    upatch.monitor.target, "none", ok).w)
    /\ upatch' = [upatch EXCEPT !.guard = "free", !.mutex = "free",
                                !.monitor = NoMonitorCallback]
    /\ UNCHANGED <<envVars, call, txn, restore, forced, resolve>>

(***************************************************************************)
(* Kernel patch object resolver                                            *)
(***************************************************************************)
\* size_of::<KpatchFunction>(): nine 8-byte fields
KPATCH_FUNC_SIZE == 72
KPATCH_FUNC_NAME_OFFSET == 40
KPATCH_OBJECT_NAME_OFFSET == 48
KPATCH_FUNC_RELA_TYPE_NUM == 3

\* Whole records in .kpatch.funcs, and records the relocations refer to.
MaxRecords == 2
\* Bytes in .kpatch.strings.
MaxStringLen == 2

\* 0 is NUL, 1 stands for any other byte.
Bytes == {0, 1}

ByteStrings == UNION {[1..n -> Bytes] : n \in 0..MaxStringLen}

\* The relocations of .kpatch.funcs for the first m records, three per
\* record, at the offsets of new_addr, name and obj_name; addends[i] holds
\* the addends of the name and obj_name relocations of record i.
RelocationsOf(addends) ==
    [j \in 1..(KPATCH_FUNC_RELA_TYPE_NUM * Len(addends)) |->
        LET i == (j - 1) \div KPATCH_FUNC_RELA_TYPE_NUM
            k == (j - 1) % KPATCH_FUNC_RELA_TYPE_NUM
        IN [offset |-> i * KPATCH_FUNC_SIZE
                         + (CASE k = 0 -> 0
                              [] k = 1 -> KPATCH_FUNC_NAME_OFFSET
                              [] k = 2 -> KPATCH_OBJECT_NAME_OFFSET),
            addend |-> IF k = 0 THEN 0 ELSE addends[i + 1][k]]]

\* The lengths of .kpatch.funcs: whole records, with or without a partial
\* record after them.
FunctionDataLengths ==
    {n * KPATCH_FUNC_SIZE + r : n \in 0..MaxRecords, r \in {0, 8}}

\* The addends of the name and obj_name relocations of the first records.
RelocationAddends ==
    UNION {[1..m -> (0..(MaxStringLen + 1)) \X (0..(MaxStringLen + 1))] :
              m \in 0..MaxRecords}

\* A patch object KernelPatchExt::new is given: an ELF file with or without
\* the two sections; function_data_len may end in a partial record, and
\* aligned tells whether the mapped section data is aligned for
\* KpatchFunction.
PatchFile(has_funcs, has_strings, len, aligned, string_data, addends) ==
    [has_funcs |-> has_funcs, has_strings |-> has_strings,
     function_data_len |-> len, aligned |-> aligned,
     string_data |-> string_data, relocations |-> RelocationsOf(addends)]

NoPatchFile ==
    [has_funcs |-> FALSE, has_strings |-> FALSE, function_data_len |-> 0,
     aligned |-> TRUE, string_data |-> <<>>, relocations |-> <<>>]

ResolveOk(symbols) == [kind |-> "ok", err |-> "none", symbols |-> symbols]
ResolveErr(err, symbols) == [kind |-> "err", err |-> err, symbols |-> symbols]
\* An out-of-range slice index: the thread panics.
ResolvePanic(symbols) == [kind |-> "panic", err |-> "none", symbols |-> symbols]

\* name_bytes.iter().position(|b| b == &b'\0'), 0 for None
NulPosition(name_bytes) ==
    IF \E i \in DOMAIN name_bytes : name_bytes[i] = 0
    THEN CHOOSE i \in DOMAIN name_bytes :
            name_bytes[i] = 0 /\ \A j \in 1..(i - 1) : name_bytes[j] # 0
    ELSE 0

RECURSIVE relocate_patch_functions(_, _, _, _)
\* `for (index, (offset, relocation)) in function_section.relocations()
\* .enumerate()`, from the relocation at position index (from 1).
relocate_patch_functions(symbols, relocations, index, string_data) ==
    IF index > Len(relocations) THEN ResolveOk(symbols)
    ELSE
      LET rel == relocations[index]
          k == (index - 1) % KPATCH_FUNC_RELA_TYPE_NUM
          field_offset == IF k = 1 THEN KPATCH_FUNC_NAME_OFFSET
                          ELSE KPATCH_OBJECT_NAME_OFFSET
          symbol_index == (rel.offset - field_offset) \div KPATCH_FUNC_SIZE
          name_offset == rel.addend
          name_bytes == SubSeq(string_data, name_offset + 1, Len(string_data))
          string_end == NulPosition(name_bytes)
          name == SubSeq(name_bytes, 1, string_end - 1)
      IN IF k = 0
         THEN relocate_patch_functions(symbols, relocations, index + 1, string_data)
         ELSE IF symbol_index + 1 > Len(symbols)
         THEN ResolveErr("Failed to find patch symbol", symbols)
         ELSE IF name_offset > Len(string_data)
         THEN ResolvePanic(symbols)
         ELSE IF string_end = 0
         THEN ResolveErr("Failed to find termination char", symbols)
         ELSE relocate_patch_functions(
                  IF k = 1 THEN [symbols EXCEPT ![symbol_index + 1].name = name]
                  ELSE [symbols EXCEPT ![symbol_index + 1].target = name],
                  relocations, index + 1, string_data)

\* KernelPatchExt::resolve_patch_file on the patch object f
resolve_patch_file(f) ==
    IF ~f.has_funcs THEN ResolveErr("Cannot find section", <<>>)
    ELSE IF ~f.has_strings THEN ResolveErr("Cannot find section", <<>>)
    ELSE IF ~f.aligned THEN ResolveErr("Invalid data format", <<>>)
    ELSE LET count == f.function_data_len \div KPATCH_FUNC_SIZE
             patch_symbols == [i \in 1..count |-> [name |-> <<>>, target |-> <<>>]]
         IN relocate_patch_functions(patch_symbols, f.relocations, 1, f.string_data)

NoResolve ==
    [pc |-> "idle", file |-> NoPatchFile, result |-> ResolveOk(<<>>)]

\* KernelPatchExt::new, up to the return of resolve_patch_file.
KernelPatchExtNew ==
    /\ resolve.pc = "idle"
    /\ \E has_funcs \in BOOLEAN, has_strings \in BOOLEAN,
          len \in FunctionDataLengths, aligned \in BOOLEAN,
          string_data \in ByteStrings, addends \in RelocationAddends :
         LET f == PatchFile(has_funcs, has_strings, len, aligned, string_data,
                            addends)
         IN resolve' = [pc |-> IF resolve_patch_file(f).kind = "panic"
                               THEN "panic" ELSE "resolved",
                        file |-> f, result |-> resolve_patch_file(f)]
    /\ UNCHANGED <<worldVars, envVars, call, txn, restore, forced, upatch>>

\* `.context("Failed to resolve patch elf").unwrap()` and the return of new.
KernelPatchExtUnwrap ==
    /\ resolve.pc = "resolved"
    /\ resolve' = [resolve EXCEPT !.pc = IF resolve.result.kind = "err"
                                         THEN "panic" ELSE "built"]
    /\ UNCHANGED <<worldVars, envVars, call, txn, restore, forced, upatch>>

(***************************************************************************)
(* Specifications                                                          *)
(***************************************************************************)
\* The state after PatchManager::new + initialize and the construction of
\* both drivers, with the patch roots `installed` on disk; sysfs is whatever
\* the kernel holds at that moment for the installed kernel patches.
InitWith(installed) ==
    /\ disk = installed
    /\ entry_map = rescan(<<>>, installed)
    /\ sysfs \in {f \in [KPatches -> SysfsContent] :
                    \A k \in KPatches \ installed : f[k] = "absent"}
    /\ patch_target_map = <<>>
    /\ status_map = <<>>
    /\ target_map = <<>>
    /\ watched = {}
    /\ procs = {}
    /\ call = NoCall
    /\ txn = IdleTxn
    /\ restore = IdleRestore
    /\ upatch = NoUpatch
    /\ resolve = NoResolve

\* Transactions over one kernel and one user patch.
Init ==
    /\ InitWith({"k1", "u1"})
    /\ status_file = NoStatusFile
    /\ forced = {}

Next ==
    \/ \E name \in TxnNames, identifier \in {"k1", "u1", "fix-a", "nothing"} :
         TxnInvoke(name, identifier, "Normal")
    \/ TxnLoop
    \/ TxnResume
    \/ TxnRollback
    \/ TxnRollbackResume
    \/ CallStep
    \/ \E pid \in Pids : ProcSpawn(pid)
    \/ \E pid \in Pids : ProcExit(pid)

Spec == Init /\ [][Next]_vars

\* Two kernel patches sharing a symbol, with and without Force.  The modules
\* may be loaded and enabled when the daemon starts; `forced` tells which of
\* the enabled ones were enabled with Force, and no two patches sharing a
\* symbol are enabled unless one of them was.
InitKernel ==
    /\ InitWith({"k1", "k2"})
    /\ status_file = NoStatusFile
    /\ forced \in SUBSET {k \in KPatches : sysfs[k] = KPATCH_STATUS_ENABLED}
    /\ \A p, q \in KPatches :
         (/\ p # q
          /\ sysfs[p] = KPATCH_STATUS_ENABLED /\ sysfs[q] = KPATCH_STATUS_ENABLED
          /\ KSymbols[p] \cap KSymbols[q] # {})
            => (p \in forced \/ q \in forced)

NextKernel ==
    \/ \E name \in TxnNames, identifier \in {"k1", "k2", "kernel"}, flag \in Flags :
         TxnInvoke(name, identifier, flag)
    \/ TxnLoop
    \/ TxnResume
    \/ TxnRollback
    \/ TxnRollbackResume
    \/ CallStep

SpecKernel == InitKernel /\ [][NextKernel]_vars

\* Two user patches of the same target.
InitUser ==
    /\ InitWith({"u1", "u2"})
    /\ status_file = NoStatusFile
    /\ forced = {}

NextUser ==
    \/ \E name \in TxnNames \ {"accept"}, identifier \in {"u1", "u2", "svc"} :
         TxnInvoke(name, identifier, "Normal")
    \/ TxnLoop
    \/ TxnResume
    \/ TxnRollback
    \/ TxnRollbackResume
    \/ CallStep
    \/ \E pid \in Pids : ProcSpawn(pid)
    \/ \E pid \in Pids : ProcExit(pid)

SpecUser == InitUser /\ [][NextUser]_vars

\* Status queries, rescans and saves between transactions; the user patch
\* is installed while the daemon runs, and no process runs its target.
InitStore ==
    /\ InitWith({"k1"})
    /\ status_file = NoStatusFile
    /\ forced = {}

NextStore ==
    \/ Rescan
    \/ Install("u1")
    \/ \E p \in {"k1", "u1"} : GetStatus(p)
    \/ Save
    \/ \E name \in TxnNames, identifier \in {"k1", "u1", "fix-a"} :
         TxnInvoke(name, identifier, "Normal")
    \/ TxnLoop
    \/ TxnResume
    \/ TxnRollback
    \/ TxnRollbackResume
    \/ CallStep

SpecStore == InitStore /\ [][NextStore]_vars

\* The status files a starting daemon can find: none, an unreadable one, or
\* a map over the installed patches and possibly a patch that is gone.
StatusFiles ==
    {NoStatusFile, CorruptStatusFile}
    \cup {StatusFile(m) : m \in [{"k1", "u1"} -> PatchStatus]}
    \cup {StatusFile(m) : m \in [{"k1", "k2"} -> {"Actived"}]}

\* Restoring the saved statuses of one kernel and one user patch.
InitRestore ==
    /\ InitWith({"k1", "u1"})
    /\ status_file \in StatusFiles
    /\ forced = {}

NextRestore ==
    \/ \E accepted_only \in BOOLEAN : RestoreBegin(accepted_only, "Normal")
    \/ RestoreLoop
    \/ RestoreResume
    \/ CallStep
    \/ \E pid \in Pids : ProcSpawn(pid)
    \/ \E pid \in Pids : ProcExit(pid)

SpecRestore == InitRestore /\ [][NextRestore]_vars

\* Transactions over three kernel patches matched by one name, none of them
\* loaded when the daemon starts.
InitRollback ==
    /\ InitWith({"k1", "k2", "k3"})
    /\ \A k \in KPatches : sysfs[k] = "absent"
    /\ status_file = NoStatusFile
    /\ forced = {}

NextRollback ==
    \/ \E name \in {"apply", "remove"} : TxnInvoke(name, "kernel", "Normal")
    \/ TxnLoop
    \/ TxnResume
    \/ TxnRollback
    \/ TxnRollbackResume
    \/ CallStep

SpecRollback == InitRollback /\ [][NextRollback]_vars

\* The driver calls of the RPC worker, statement by statement, next to the
\* monitor thread; the processes of the target are those started before the
\* first driver call.
NextLock ==
    \/ \E p \in UPatches : DriverApply(p)
    \/ \E name \in {"active", "deactive"}, p \in UPatches : DriverCall(name, p)
    \/ DriverStep
    \/ \E p \in UPatches : MonitorEvent(TargetElf[p])
    \/ MonitorLock
    \/ MonitorCallback
    \/ \E pid \in Pids : target_map = <<>> /\ upatch = NoUpatch /\ ProcSpawn(pid)

SpecLock == InitUser /\ [][NextLock]_vars

\* The same threads, with processes of the target starting at any moment.
NextRace ==
    \/ \E p \in UPatches : DriverApply(p)
    \/ \E name \in {"active", "deactive"}, p \in UPatches : DriverCall(name, p)
    \/ DriverStep
    \/ \E p \in UPatches : MonitorEvent(TargetElf[p])
    \/ MonitorLock
    \/ MonitorCallback
    \/ \E pid \in Pids : ProcSpawn(pid)

SpecRace == InitUser /\ [][NextRace]_vars

\* The daemon builds the extension of one kernel patch object.
InitResolve ==
    /\ InitWith({})
    /\ status_file = NoStatusFile
    /\ forced = {}

NextResolve ==
    \/ KernelPatchExtNew
    \/ KernelPatchExtUnwrap

SpecResolve == InitResolve /\ [][NextResolve]_vars

\* Restores of the accepted patches only, as at the start of the daemon.
NextRestoreAccepted ==
    \/ RestoreBegin(TRUE, "Normal")
    \/ RestoreLoop
    \/ RestoreResume
    \/ CallStep
    \/ \E pid \in Pids : ProcSpawn(pid)
    \/ \E pid \in Pids : ProcExit(pid)

SpecRestoreAccepted == InitRestore /\ [][NextRestoreAccepted]_vars

\* Restores of every saved status, as on a request to restore all patches.
NextRestoreAll ==
    \/ RestoreBegin(FALSE, "Normal")
    \/ RestoreLoop
    \/ RestoreResume
    \/ CallStep
    \/ \E pid \in Pids : ProcSpawn(pid)
    \/ \E pid \in Pids : ProcExit(pid)

SpecRestoreAll == InitRestore /\ [][NextRestoreAll]_vars

\* Saves and restores between transactions; every patch_status file read by
\* a restore was written by an earlier save.
NextSaveRestore ==
    \/ NextStore
    \/ \E accepted_only \in BOOLEAN : RestoreBegin(accepted_only, "Normal")
    \/ RestoreLoop
    \/ RestoreResume

SpecSaveRestore == InitStore /\ [][NextSaveRestore]_vars

\* The status files saved for two kernel patches sharing a symbol.
KernelStatusFiles ==
    {StatusFile(m) : m \in [{"k1", "k2"} -> PatchStatus \ {"Unknown"}]}

\* Restoring the saved statuses of two kernel patches sharing a symbol,
\* between transactions on either patch; no module is loaded at start.
InitRestoreKernel ==
    /\ InitWith({"k1", "k2"})
    /\ \A k \in KPatches : sysfs[k] = "absent"
    /\ status_file \in KernelStatusFiles
    /\ forced = {}

NextRestoreKernel ==
    \/ \E name \in {"apply", "remove"}, identifier \in {"k1", "k2"},
          flag \in Flags :
         TxnInvoke(name, identifier, flag)
    \/ TxnLoop
    \/ TxnResume
    \/ CallStep
    \/ RestoreBegin(FALSE, "Normal")
    \/ RestoreLoop
    \/ RestoreResume

SpecRestoreKernel == InitRestoreKernel /\ [][NextRestoreKernel]_vars

\* Packages are installed and uninstalled while the daemon runs, between
\* rescans and status queries.
InitScan ==
    /\ InitWith({"k2", "u1"})
    /\ status_file = NoStatusFile
    /\ forced = {}

NextScan ==
    \/ Rescan
    \/ \E root \in PatchRoots \ {"k3"} : Install(root)
    \/ \E root \in PatchRoots \ {"k3"} : Uninstall(root)
    \/ \E p \in Patches \ {"k3"} : GetStatus(p)

SpecScan == InitScan /\ [][NextScan]_vars

\* Two user patches of one target are applied while processes of the
\* target start and exit and the monitor scans the target.
NextMonitor ==
    \/ \E identifier \in {"u1", "u2"} : TxnInvoke("apply", identifier, "Normal")
    \/ TxnLoop
    \/ TxnResume
    \/ CallStep
    \/ \E pid \in Pids : ProcSpawn(pid)
    \/ \E pid \in Pids : ProcExit(pid)
    \/ \E p \in UPatches : MonitorScan(TargetElf[p])

SpecMonitor == InitUser /\ [][NextMonitor]_vars

(***************************************************************************)
(* Properties of the transaction engine                                    *)
(***************************************************************************)
\* C1: when invoke() returns an error and every rollback transition
\* succeeded, every patch matched by the identifier, the one whose action
\* failed part-way included, has the status it had before invoke().
C1_FailedTransactionRestoresEveryMatch ==
    (txn.pc = "done" /\ txn.result.kind = "err" /\ txn.result.context = "failed")
        => \A i \in DOMAIN txn.matched :
              Resolved(World, txn.matched[i]) = txn.before[i]

\* C2: when the action fails and a rollback transition fails as well, the
\* error returned by invoke() still has the action's failure as root cause.
C2_RollbackFailureKeepsRootCause ==
    (txn.pc = "done" /\ txn.result.context = "rollback failed")
        => txn.result.root = txn.err

(***************************************************************************)
(* Properties of the state machine                                         *)
(***************************************************************************)
\* The transition table as the design lists it: (from, to) -> primitives.
ListedPrimitives ==
    (<<"NotApplied", "Deactived">> :> <<"apply">>)
    @@ (<<"NotApplied", "Actived">> :> <<"apply", "active">>)
    @@ (<<"NotApplied", "Accepted">> :> <<"apply", "active", "accept">>)
    @@ (<<"Deactived", "NotApplied">> :> <<"remove">>)
    @@ (<<"Deactived", "Actived">> :> <<"active">>)
    @@ (<<"Deactived", "Accepted">> :> <<"active", "accept">>)
    @@ (<<"Actived", "NotApplied">> :> <<"deactive", "remove">>)
    @@ (<<"Actived", "Deactived">> :> <<"deactive">>)
    @@ (<<"Actived", "Accepted">> :> <<"accept">>)
    @@ (<<"Accepted", "NotApplied">> :> <<"decline", "deactive", "remove">>)
    @@ (<<"Accepted", "Deactived">> :> <<"decline", "deactive">>)
    @@ (<<"Accepted", "Actived">> :> <<"decline">>)

IsPrefix(s, t) == Len(s) <= Len(t) /\ SubSeq(t, 1, Len(s)) = s

\* C3: for every pair of the transition table, do_status_transition invokes
\* the listed primitives in the listed order (a prefix of them until it
\* returns, none after a failure), and when all succeed it returns the
\* requested status, which is then the status of the patch.
C3_TransitionRunsListedPrimitives ==
    (call.pc \in {"run", "ret"} /\ <<call.from, call.target>> \in DOMAIN ListedPrimitives)
        => LET listed == ListedPrimitives[<<call.from, call.target>>]
           IN /\ IsPrefix(call.done, listed)
              /\ call.pc = "run" => call.done \o call.todo = listed
              /\ (call.pc = "ret" /\ call.err = "ok")
                    => /\ call.done = listed
                       /\ call.ret = call.target
                       /\ StatusOf(entry_map, call.patch) = call.target
                       /\ Resolved(World, call.patch) = call.target
              /\ (call.pc = "ret" /\ call.err # "ok" /\ call.done # <<>>)
                    => call.ret = "Unknown"

C3_Witness ==
    /\ call.pc = "ret" /\ call.err = "ok"
    /\ call.from = "Accepted" /\ call.target = "NotApplied"
    /\ call.done = <<"decline", "deactive", "remove">>
    /\ call.patch \in UPatches

\* The step is a call of do_status_transition for a pair of statuses that
\* the transition table does not list, the current status being known.
UnlistedCall ==
    /\ call.pc = "none" /\ call'.pc = "ret"
    /\ call'.from # "Unknown"
    /\ <<call'.from, call'.target>> \notin DOMAIN ListedPrimitives

\* The step leaves the drivers alone and the patch at the status it had.
NoOp ==
    /\ call'.done = <<>>
    /\ UNCHANGED <<sysfs, patch_target_map, status_map, target_map, watched>>
    /\ StatusOf(entry_map', call'.patch) = call'.from
    /\ \A u \in Uuids(entry_map) \ {call'.patch} :
          StatusOf(entry_map', u) = StatusOf(entry_map, u)

\* C4 as stated: for every pair that is not in the transition table,
\* do_status_transition invokes no primitive, leaves the status at s1 and
\* returns s1.
C4_UnlistedPairReturnsCurrent ==
    [][UnlistedCall => (NoOp /\ call'.err = "ok" /\ call'.ret = call'.from)]_vars

\* C4, amended: for every pair that is not in the transition table,
\* do_status_transition invokes no primitive and leaves the status at s1; it
\* returns s1 when s1 = s2 and an error when s2 differs (s2 = Unknown).
C4_UnlistedPairIsNoOp ==
    [][UnlistedCall =>
         /\ NoOp
         /\ (call'.from = call'.target) => (call'.err = "ok" /\ call'.ret = call'.from)
         /\ (call'.from # call'.target)
               => (call'.target = "Unknown" /\ call'.err = "NotReached")]_vars

C4_Witness ==
    /\ call.pc = "ret" /\ call.caller = "restore"
    /\ call.from = "Actived" /\ call.target = "Unknown"
    /\ call.err = "NotReached" /\ call.done = <<>>

(***************************************************************************)
(* Properties of the status cache and of the status file                   *)
(***************************************************************************)
\* A status query of p, whatever the driver answers: it never succeeds with
\* Unknown, a success leaves its answer in the cache, a failure leaves the
\* cache alone, and a driver that cannot tell makes the query fail.
QueryNeverYieldsUnknown(p, o) ==
    LET g == get_patch_status(World, p, o)
        d == driver_get_patch_status(World, p, o)
    IN /\ g.err = "ok" => (g.status # "Unknown"
                           /\ StatusOf(g.w.entry_map, p) = g.status)
       /\ g.err # "ok" => g.w = World
       /\ (StatusOf(entry_map, p) = "Unknown" /\ d.status = "Unknown")
             => g.err # "ok"

\* C5: get_patch_status never returns Unknown; the first successful query
\* caches the resolved status, and from then on the stored status of the
\* patch never becomes Unknown again, whatever operation runs.
C5_UnknownNeverVisible ==
    /\ [](/\ \A p \in Uuids(entry_map), o \in StatusOracles :
               QueryNeverYieldsUnknown(p, o)
          /\ (call.pc = "ret" /\ call.err = "ok") => call.ret # "Unknown"
          /\ txn.pc \in {"wait", "rbwait"} => txn.old_status # "Unknown")
    /\ [][\A p \in Uuids(entry_map) :
             StatusOf(entry_map, p) # "Unknown"
                => (p \in Uuids(entry_map') /\ StatusOf(entry_map', p) # "Unknown")]_vars

C5_Witness ==
    /\ "u1" \in Uuids(entry_map) /\ StatusOf(entry_map, "u1") = "Unknown"
    /\ StatusOf(entry_map, "k1") = "Accepted"
    /\ txn.pc = "done" /\ txn.name = "accept"

\* C6: every status map written by save_patch_status has one entry per
\* patch of entry_map at that moment, and no entry is Unknown.
C6_SavedMapCompleteAndResolved ==
    [][status_file' # status_file
          => /\ status_file'.kind = "ok"
             /\ DOMAIN status_file'.map = Uuids(entry_map')
             /\ Uuids(entry_map') = Uuids(entry_map)
             /\ \A u \in DOMAIN status_file'.map :
                   /\ status_file'.map[u] # "Unknown"
                   /\ status_file'.map[u] = StatusOf(entry_map', u)]_vars

C6_Witness ==
    /\ status_file.kind = "ok"
    /\ DOMAIN status_file.map = {"k1", "u1"}
    /\ disk = {"k1", "u1"}

(***************************************************************************)
(* Properties of the user patch driver                                     *)
(***************************************************************************)
\* C7: UserPatchDriver.active(p) succeeds if and only if the injection
\* succeeded for at least one enumerated process or no process was
\* enumerated (the target being registered, p not yet attached, and /proc
\* and the monitor working).
C7_ActiveSucceedsIffOneInjectedOrNoProcess ==
    (/\ call.pc = "run" /\ Head(call.todo) = "active" /\ call.patch \in UPatches
     /\ TargetElf[call.patch] \in DOMAIN target_map
     /\ call.patch \notin DOMAIN target_map[TargetElf[call.patch]].patches)
        => \A ok_pids \in SUBSET procs :
              (UserActive(World, call.patch, [fail |-> "none", ok_pids |-> ok_pids]).err = "ok")
                 <=> (procs = {} \/ ok_pids # {})

\* C8: between operations, a target ELF is a key of target_map if and only
\* if some patch of that target is Deactived, Actived or Accepted.
C8_TargetRegisteredIffPatchApplied ==
    Idle =>
      \A t \in {TargetElf[p] : p \in UPatches} :
         (t \in DOMAIN target_map)
            <=> \E p \in UPatches \cap Uuids(entry_map) :
                   /\ TargetElf[p] = t
                   /\ Resolved(World, p) \in {"Deactived", "Actived", "Accepted"}

(***************************************************************************)
(* Properties of the kernel patch driver                                   *)
(***************************************************************************)
\* The records of the registry that belong to another patch than p and name
\* a symbol p patches too.
SharedRecords(p) ==
    {x \in UNION {{<<t, r>> : r \in patch_target_map[t]} :
                     t \in DOMAIN patch_target_map} :
        /\ x[2].uuid # p
        /\ <<x[1], x[2].symbol>> \in KSymbols[p]}

\* C9: no two distinct kernel patches that were both activated without
\* Force are Actived or Accepted while sharing a (target module, symbol).
C9_NoSharedSymbolWithoutForce ==
    \A p, q \in KPatches :
       (/\ p # q
        /\ Resolved(World, p) \in {"Actived", "Accepted"}
        /\ Resolved(World, q) \in {"Actived", "Accepted"}
        /\ p \notin forced /\ q \notin forced)
          => KSymbols[p] \cap KSymbols[q] = {}

\* C10: kernel deactive(p) without Force, when another patch has a registered
\* symbol in common with p, fails, writes nothing to sysfs and leaves the
\* registry as it is; otherwise it fails without any change or writes "0"
\* and removes exactly the records of p from the registry.
C10_KernelDeactive ==
    [][(/\ call.pc = "run" /\ Head(call.todo) = "deactive"
        /\ call.patch \in KPatches /\ call'.done # call.done)
          => LET p == call.patch
                 unchanged == sysfs' = sysfs /\ patch_target_map' = patch_target_map
                 written ==
                   /\ sysfs' = [sysfs EXCEPT ![p] = "0"]
                   /\ patch_target_map' =
                        [t \in DOMAIN patch_target_map |->
                            {r \in patch_target_map[t] : r.uuid # p}]
             IN IF call.flag # "Force" /\ SharedRecords(p) # {}
                THEN call'.err = "Override" /\ unchanged
                ELSE \/ call'.err = "ok" /\ written
                     \/ call'.err = "Io" /\ unchanged]_vars

C10_Witness ==
    /\ call.pc = "ret" /\ call.err = "Override"
    /\ call.patch \in KPatches /\ call.flag = "Normal"
    /\ sysfs[call.patch] = KPATCH_STATUS_ENABLED

\* The pids on which deactive(p) calls sys::deactive_patch: the live pids
\* the patch is active in.
DeactivatedPids(p) ==
    (target_map[TargetElf[p]].patches[p].active_pids \cap procs)
        \ target_map[TargetElf[p]].patches[p].ignored_pids

\* C11: when deactive_patch fails for at least one pid, deactive(p) and the
\* manager's deactive primitive return an error and p is not detached: it
\* stays in the patch set of its target with its functions registered, the
\* target stays watched and the status of p stays Actived.
C11_FailedDeactiveKeepsPatchAttached ==
    (/\ call.pc = "run" /\ Head(call.todo) = "deactive" /\ call.patch \in UPatches
     /\ TargetElf[call.patch] \in DOMAIN target_map
     /\ call.patch \in DOMAIN target_map[TargetElf[call.patch]].patches)
        => LET p == call.patch
               t == TargetElf[p]
           IN \A ok_pids \in SUBSET procs, fail \in {"none", "ignore"} :
                 LET o == [fail |-> fail, ok_pids |-> ok_pids]
                     d == UserDeactive(World, p, o)
                     r == driver_deactive_patch(World, p, call.flag, o)
                 IN DeactivatedPids(p) \ ok_pids # {}
                      => /\ d.err # "ok" /\ r.err # "ok" /\ r.w = d.w
                         /\ p \in DOMAIN r.w.target_map[t].patches
                         /\ r.w.target_map[t].functions = target_map[t].functions
                         /\ {[uuid |-> p, func |-> f] : f \in UFunctions[p]}
                               \subseteq r.w.target_map[t].functions
                         /\ t \in r.w.watched
                         /\ r.w.status_map[p] = "Actived"
                         /\ StatusOf(r.w.entry_map, p) = "Actived"

C11_Witness ==
    /\ call.pc = "ret" /\ call.err = "DriverFailure"
    /\ call.patch \in UPatches /\ call.done = <<"deactive">>
    /\ call.patch \in DOMAIN target_map[TargetElf[call.patch]].patches
    /\ status_map[call.patch] = "Actived"

\* No registry of either driver holds a record of p.
NoRecordOf(p) ==
    /\ \A t \in DOMAIN patch_target_map :
          \A r \in patch_target_map[t] : r.uuid # p
    /\ \A t \in DOMAIN target_map :
          /\ p \notin DOMAIN target_map[t].patches
          /\ \A f \in target_map[t].functions : f.uuid # p

\* C12: a successful remove of a patch that a successful apply had brought
\* to Actived leaves it NotApplied, with no symbol or function record of it
\* in any target registry.
C12_ApplyThenRemoveLeavesNothing ==
    (txn.pc = "done" /\ txn.name = "remove" /\ txn.result.kind = "ok")
        => \A i \in DOMAIN txn.matched :
              txn.before[i] = "Actived"
                 => /\ StatusOf(entry_map, txn.matched[i]) = "NotApplied"
                    /\ Resolved(World, txn.matched[i]) = "NotApplied"
                    /\ driver_get_patch_status(World, txn.matched[i], NoFailure).status
                          = "NotApplied"
                    /\ NoRecordOf(txn.matched[i])

C12_Witness ==
    /\ txn.pc = "done" /\ txn.name = "remove" /\ txn.result.kind = "ok"
    /\ txn.matched = <<"k1", "u1">> /\ txn.before = <<"Actived", "Actived">>
    /\ NoRecordOf("k1") /\ NoRecordOf("u1")

(***************************************************************************)
(* Properties of the apply operation                                       *)
(***************************************************************************)
\* C13: when the apply operation has succeeded on a kernel patch that was
\* NotApplied, the patch is loaded but dormant: its sysfs enabled file
\* exists and reads "0" and its status is Deactived.
C13_ApplyLeavesKernelPatchDormant ==
    (txn.pc = "done" /\ txn.name = "apply" /\ txn.result.kind = "ok")
        => \A i \in DOMAIN txn.matched :
              (txn.matched[i] \in KPatches /\ txn.before[i] = "NotApplied")
                 => /\ sysfs[txn.matched[i]] = KPATCH_STATUS_DISABLED
                    /\ StatusOf(entry_map, txn.matched[i]) = "Deactived"
                    /\ Resolved(World, txn.matched[i]) = "Deactived"

(***************************************************************************)
(* Properties of save and restore                                          *)
(***************************************************************************)
\* The state a successful save_patch_status leaves, as long as no status
\* changed since: the file holds exactly the manager's statuses.
SavedAndUnchanged ==
    /\ status_file.kind = "ok"
    /\ DOMAIN status_file.map = Uuids(entry_map)
    /\ \A u \in Uuids(entry_map) : status_file.map[u] = StatusOf(entry_map, u)

\* A step of restore_patch_status: its beginning, or a step of its loop.
RestoreStep ==
    \/ restore.pc \in {"idle", "done"} /\ restore'.pc \in {"loop", "done"}
         /\ restore' # restore
    \/ restore.pc = "loop" /\ restore' # restore
    \/ restore.pc = "wait" /\ call' # call

\* C14: when restore_patch_status runs on the file a successful
\* save_patch_status wrote, no status and no driver state having changed
\* since, every step of it leaves the statuses and the drivers as they
\* are, no transition runs a primitive or fails, and restore succeeds.
C14_SaveThenRestoreIsIdentity ==
    [][(SavedAndUnchanged /\ RestoreStep)
          => /\ UNCHANGED worldVars
             /\ UNCHANGED status_file
             /\ call'.pc \in {"none", "ret"}
             /\ call'.done = <<>>
             /\ call'.err = "ok"
             /\ call'.pc = "ret" => call'.ret = call'.target
             /\ restore'.err = "ok"
             /\ restore.pc \in {"idle", "done"} => restore'.pc = "loop"]_vars

\* The last entry of a restore of the saved file returned: k1 was and is
\* Accepted, u1 Deactived, and no primitive ran.
C14_Witness ==
    /\ SavedAndUnchanged
    /\ restore.pc = "wait" /\ restore.list = <<>>
    /\ call.pc = "ret" /\ call.caller = "restore" /\ call.patch = "k1"
    /\ call.done = <<>> /\ call.err = "ok"
    /\ call.from = "Accepted" /\ call.target = "Accepted"
    /\ status_file.map = [k1 |-> "Accepted", u1 |-> "Deactived"]

\* <<patch, status>> a is replayed before b: lower target status first, and
\* among equal statuses the lower patch.
ReplayedBefore(a, b) ==
    \/ StatusRank[a[2]] < StatusRank[b[2]]
    \/ a[2] = b[2] /\ PatchRank(a[1]) < PatchRank(b[1])

\* The primitives of the transition the restore is running.
RestorePrimitives == Range(call.done) \cup Range(call.todo)

\* The files of the restore-ordering scenario: one of two overlapping
\* patches saved Actived, the other NotApplied.
OneActivedOneNotApplied ==
    /\ status_file.kind = "ok"
    /\ status_file.map \in {[k1 |-> "Actived", k2 |-> "NotApplied"],
                            [k1 |-> "NotApplied", k2 |-> "Actived"]}

\* C15: restore_patch_status replays the entries in ascending order of
\* target status, ties broken by patch order; a transition that deactivates
\* or removes has a target below Actived and one that activates a target of
\* at least Actived, so the former all run before the latter; and restoring
\* {Actived, NotApplied} for two overlapping patches gives no conflict error.
C15_RestoreAscending ==
    /\ restore.pc \in {"loop", "wait"}
         => \A i, j \in DOMAIN restore.list :
               i < j => ReplayedBefore(restore.list[i], restore.list[j])
    /\ (restore.pc = "wait" /\ call.caller = "restore")
         => /\ \A i \in DOMAIN restore.list :
                  ReplayedBefore(<<call.patch, call.target>>, restore.list[i])
            /\ RestorePrimitives \cap {"deactive", "remove"} # {}
                  => call.target \in {"NotApplied", "Deactived"}
            /\ "active" \in RestorePrimitives
                  => /\ call.target \in {"Actived", "Accepted"}
                     /\ \A i \in DOMAIN restore.list, s \in PatchStatus :
                           <<s, restore.list[i][2]>> \in DOMAIN TRANSITION_MAP
                              => Range(TRANSITION_MAP[<<s, restore.list[i][2]>>])
                                    \cap {"deactive", "remove"} = {}
    /\ (OneActivedOneNotApplied /\ restore.pc # "idle")
         => /\ restore.err # "Conflict"
            /\ call.caller = "restore" => call.err # "Conflict"

\* k2 was applied and activated by a transaction; the restore of
\* {k1: Actived, k2: NotApplied} then removed k2 and activated k1.
C15_Witness ==
    /\ restore.pc = "done" /\ restore.err = "ok"
    /\ status_file = StatusFile([k1 |-> "Actived", k2 |-> "NotApplied"])
    /\ txn.pc = "done" /\ txn.name = "apply" /\ txn.identifier = "k2"
    /\ txn.result.kind = "ok" /\ txn.before = <<"NotApplied">>
    /\ sysfs["k1"] = KPATCH_STATUS_ENABLED /\ sysfs["k2"] = "absent"
    /\ StatusOf(entry_map, "k1") = "Actived"
    /\ StatusOf(entry_map, "k2") = "NotApplied"

\* restore_patch_status is called: the step from before it to its loop or
\* to its return.
RestoreCalled ==
    restore.pc \in {"idle", "done"} /\ restore' # restore

\* The entries of the status file whose uuid the manager knows.
KnownEntries(accepted_only) ==
    {<<u, status_file.map[u]>> : u \in
        {x \in DOMAIN status_file.map \cap Uuids(entry_map) :
            accepted_only => status_file.map[x] = "Accepted"}}

\* C16: with no patch_status file restore_patch_status returns success
\* without calling a transition or changing a status; with an unreadable
\* file it returns an error, also changing nothing; an entry whose uuid is
\* not in the manager is left out of the replay, which goes on with the
\* others and never runs a transition on such a uuid.
C16_RestoreFileCases ==
    [][/\ (RestoreCalled /\ status_file.kind = "absent")
            => /\ restore'.pc = "done" /\ restore'.err = "ok"
               /\ call' = NoCall
               /\ UNCHANGED <<worldVars, status_file>>
       /\ (RestoreCalled /\ status_file.kind = "corrupt")
            => /\ restore'.pc = "done" /\ restore'.err # "ok"
               /\ call' = NoCall
               /\ UNCHANGED <<worldVars, status_file>>
       /\ (RestoreCalled /\ status_file.kind = "ok")
            => /\ restore'.pc = "loop" /\ restore'.err = "ok"
               /\ Range(restore'.list) \in {KnownEntries(FALSE), KnownEntries(TRUE)}
               /\ Len(restore'.list) = Cardinality(Range(restore'.list))
               /\ UNCHANGED <<worldVars, status_file>>
       /\ call'.caller = "restore" => call'.patch \in Uuids(entry_map)]_vars

\* The file names k1 and k2, k2 is not in the manager: the restore skipped
\* k2, activated k1 and returned success.
C16_Witness ==
    /\ status_file = StatusFile([k1 |-> "Actived", k2 |-> "Actived"])
    /\ "k2" \notin Uuids(entry_map)
    /\ restore.pc = "done" /\ restore.err = "ok"
    /\ StatusOf(entry_map, "k1") = "Actived"
    /\ sysfs["k1"] = KPATCH_STATUS_ENABLED

(***************************************************************************)
(* Properties of rescan                                                    *)
(***************************************************************************)
\* The entries are in the order of their entity names.
EntitySorted(em) ==
    \A i, j \in DOMAIN em :
        i < j => NameRank(PatchInfo[em[i].uuid].entity_name)
                    <= NameRank(PatchInfo[em[j].uuid].entity_name)

\* C17: a rescan that follows a rescan over the same patches/ directory
\* leaves entry_map (keys, patch records, statuses, order) as the first one
\* left it, and after every rescan the entries are ordered by entity_name.
C17_RescanIdempotentAndSorted ==
    /\ EntitySorted(entry_map)
    /\ LET once == rescan(entry_map, disk)
       IN /\ EntitySorted(once)
          /\ rescan(once, disk) = once

\* All four patches are in the map, two of them inserted by a rescan after
\* the start and one with a resolved status; one more rescan changes
\* nothing.
C17_Witness ==
    /\ Uuids(entry_map) = Patches \ {"k3"}
    /\ Patches \ {"k3"} \subseteq disk
    /\ StatusOf(entry_map, "k2") = "Actived"
    /\ StatusOf(entry_map, "u2") = "Unknown"
    /\ rescan(entry_map, disk) = entry_map
    /\ get_patch_list(entry_map) = <<"k1", "k2", "u1", "u2">>

\* The uuids of the patches that can be read from the roots on disk.
UuidsOnDisk ==
    {read_from(root).uuid : root \in {r \in disk : read_from(r).kind = "ok"}}

\* C18: rescan never removes an entry and never changes the patch record
\* or the status of a uuid that is already present, even when that patch's
\* directory is gone from disk; it inserts only uuids that were not present
\* and are found on disk, each with status Unknown, and no uuid is a key
\* twice.  No other step removes an entry or changes its patch record.
C18_RescanKeepsPresentEntries ==
    /\ [](LET after == rescan(entry_map, disk)
          IN /\ \A u \in Uuids(entry_map) :
                   /\ u \in Uuids(after)
                   /\ EntryOf(after, u) = EntryOf(entry_map, u)
             /\ \A u \in Uuids(after) \ Uuids(entry_map) :
                   /\ u \in UuidsOnDisk
                   /\ StatusOf(after, u) = "Unknown"
                   /\ EntryOf(after, u).patch \in disk
                   /\ read_from(EntryOf(after, u).patch).uuid = u
             /\ Len(after) = Cardinality(Uuids(after)))
    /\ [][/\ \A u \in Uuids(entry_map) :
               /\ u \in Uuids(entry_map')
               /\ EntryOf(entry_map', u).patch = EntryOf(entry_map, u).patch
               /\ Len(entry_map') > Len(entry_map)
                     => EntryOf(entry_map', u) = EntryOf(entry_map, u)
          /\ Len(entry_map') = Cardinality(Uuids(entry_map'))]_vars

\* k1 was read from its root and resolved; its directory is gone and
\* another root with the same uuid is on disk; a rescan has inserted u2 and
\* the entry of k1 is as it was.
C18_Witness ==
    /\ "k1" \in Uuids(entry_map) /\ "k1" \notin disk /\ "k1.v2" \in disk
    /\ EntryOf(entry_map, "k1").patch = "k1"
    /\ StatusOf(entry_map, "k1") = "NotApplied"
    /\ "u2" \in Uuids(entry_map) /\ StatusOf(entry_map, "u2") = "Unknown"
    /\ rescan(entry_map, disk) = entry_map

\* C19: when a patch root on disk cannot be parsed, the root of a kernel
\* patch whose ELF object cannot be resolved included, rescan completes and
\* every well-formed patch root on disk is in the map after it; no rescan
\* ends in a panic.
C19_BadRootNeverAbortsScan ==
    /\ call.pc # "panic"
    /\ (disk \cap (BadMetadata \cup BadElf) # {})
          => /\ ~scan_patches(ScanOrder, disk).panic
             /\ UuidsOnDisk \subseteq Uuids(rescan(entry_map, disk))

(***************************************************************************)
(* Properties of the monitor                                               *)
(***************************************************************************)
\* The record of patch u attached to the target of its ELF.
EntityOf(u) == target_map[TargetElf[u]].patches[u]

\* The pids of a monitor scan that patch u has not treated: alive, neither
\* active nor ignored.
Untreated(u) == procs \ (EntityOf(u).active_pids \cup EntityOf(u).ignored_pids)

\* A step of the monitor's callback that changed a record.
MonitorStep ==
    /\ target_map' # target_map
    /\ call' = call /\ txn' = txn /\ procs' = procs

\* C20: in a monitor scan of target T, for every patch attached to T,
\* active_patch is invoked exactly for the live pids of T that are neither
\* in active_pids nor in ignored_pids; each success adds the pid to
\* active_pids, each failure adds it to ignored_pids, and the pids that are
\* no longer alive leave both sets.
C20_MonitorScan ==
    /\ [](\A t \in DOMAIN target_map :
            LET r == patch_new_process(World, t, "none", [u \in UPatches |-> procs])
            IN /\ DOMAIN r.w.target_map[t].patches = DOMAIN target_map[t].patches
               /\ r.called = {x \in UPatches \X Pids :
                                 /\ x[1] \in DOMAIN target_map[t].patches
                                 /\ x[2] \in Untreated(x[1])}
               /\ \A u \in DOMAIN target_map[t].patches, ok_pids \in SUBSET procs :
                     LET old == EntityOf(u)
                         new == ScanEntity(old, procs, ok_pids).entity
                     IN /\ new.active_pids = (old.active_pids \cap procs)
                                                \cup (Untreated(u) \cap ok_pids)
                        /\ new.ignored_pids = (old.ignored_pids \cap procs)
                                                 \cup (Untreated(u) \ ok_pids)
                        /\ ok_pids = procs
                              => r.w.target_map[t].patches[u] = new)
    /\ [][MonitorStep
            => \A t \in DOMAIN target_map :
                  /\ t \in DOMAIN target_map'
                  /\ DOMAIN target_map'[t].patches = DOMAIN target_map[t].patches
                  /\ \A u \in DOMAIN target_map[t].patches :
                        LET old == target_map[t].patches[u]
                            new == target_map'[t].patches[u]
                            untreated == procs \ (old.active_pids \cup old.ignored_pids)
                        IN /\ new.active_pids \cup new.ignored_pids
                                = ((old.active_pids \cup old.ignored_pids) \cap procs)
                                     \cup untreated
                           /\ new.active_pids \ untreated = old.active_pids \cap procs
                           /\ new.ignored_pids \ untreated = old.ignored_pids \cap procs
                           /\ new.active_pids \cap new.ignored_pids = {}]_vars

\* apply(u1) succeeded, so u1 had an active pid; a later scan has removed
\* the dead pids from active_pids and put the new process 1, on which
\* active_patch failed, into ignored_pids.
C20_Witness ==
    /\ txn.pc = "done" /\ txn.name = "apply" /\ txn.identifier = "u1"
    /\ txn.result.kind = "ok"
    /\ TargetElf["u1"] \in DOMAIN target_map
    /\ "u1" \in DOMAIN target_map[TargetElf["u1"]].patches
    /\ EntityOf("u1").active_pids = {}
    /\ EntityOf("u1").ignored_pids = {1}
    /\ procs = {1}

\* The driver call in progress is about to execute `step`.
DriverAt(step) ==
    /\ upatch.op.pc > 0
    /\ DriverSteps(upatch.op.name)[upatch.op.pc] = step

\* C21: active and deactive never hold the target_map guard when they call
\* watch_file or ignore_file; a monitor callback waiting for the guard finds
\* it free or held by a driver call that can go on, and whenever a driver
\* call or a callback is in progress one of the two threads can take a step.
C21_NoGuardAcrossMonitorCall ==
    /\ DriverAt("monitor") => upatch.guard # "driver"
    /\ upatch.monitor.pc = "callback"
         => (upatch.guard = "free" \/ (upatch.guard = "driver" /\ ENABLED DriverStep))
    /\ (upatch.op.pc > 0 \/ upatch.monitor.pc # "idle")
         => ENABLED (DriverStep \/ MonitorLock \/ MonitorCallback)

\* The callback waits for the guard while the driver is at its monitor call.
C21_Witness ==
    /\ upatch.monitor.pc = "callback"
    /\ DriverAt("monitor")
    /\ upatch.op.need_watch

\* A transaction is between its first action and the end of its rollback.
InTransaction == txn.pc \notin {"idle", "done"}

\* The step starts a transaction: invoke() builds a fresh activation.
TransactionStarts == txn' # txn /\ txn'.cur = IdleTxn.cur

\* The step is one of the transaction in progress: an iteration of start()
\* or rollback(), a primitive of their transition, or its return.
OwnStep ==
    /\ txn'.name = txn.name /\ txn'.identifier = txn.identifier
    /\ txn'.matched = txn.matched
    /\ \/ txn' # txn
       \/ call.caller \in {"txn", "rollback"} /\ call' # call

MatchIdentifiers ==
    Patches
    \cup {PatchInfo[p].entity_name : p \in Patches}
    \cup {PatchInfo[p].patch_name : p \in Patches}
    \cup {PatchInfo[p].target_name : p \in Patches}
    \cup {"nothing"}

\* The uuids of entry_map, in its order, whose patch has a name equal to id.
NameMatches(em, id) ==
    SelectSeq([i \in DOMAIN em |-> em[i].uuid], LAMBDA u : is_matched(id, u))

\* C23: match_patch(id) is the one patch with uuid id when there is one, and
\* otherwise the patches with a name equal to id, in entry_map order; a
\* transaction on an identifier that matches nothing ends at once with an
\* error and changes neither the manager, the drivers nor the status file.
C23_MatchPatch ==
    /\ [](\A id \in MatchIdentifiers :
            match_patch(entry_map, id) =
                IF \E i \in DOMAIN entry_map : entry_map[i].uuid = id
                THEN <<id>>
                ELSE NameMatches(entry_map, id))
    /\ [][(TransactionStarts /\ match_patch(entry_map, txn'.identifier) = <<>>)
            => /\ txn'.pc = "done"
               /\ txn'.result.kind = "err"
               /\ txn'.finish_list = <<>>
               /\ UNCHANGED <<worldVars, status_file, call>>]_vars

\* A transaction by name matched two patches, in entry_map order, after one
\* on an identifier matching nothing could be refused.
C23_Witness ==
    /\ txn.identifier = "fix-a"
    /\ txn.matched = <<"k1", "u1">>
    /\ match_patch(entry_map, "u2") = <<>>
    /\ match_patch(entry_map, "k1") = <<"k1">>

\* The oracles in which the only failure is on the /proc entries of one pid.
UnreadablePidOracles ==
    {o \in Oracles : o.fail \in {"exe", "map_files"} /\ o.ok_pids = procs}

\* C24: with processes of the target running, an unreadable /proc entry of
\* one pid never fails the enumeration: find_target_process still returns
\* the pids of the target, and the active of an applied patch on which
\* every injection succeeds still succeeds.
C24_UnreadablePidIsSkipped ==
    procs # {} =>
       \A o \in UnreadablePidOracles, p \in UPatches :
          /\ find_target_process(World, TargetElf[p], o)
                = [err |-> "ok", pids |-> procs]
          /\ (/\ TargetElf[p] \in DOMAIN target_map
              /\ p \notin DOMAIN target_map[TargetElf[p]].patches)
                => UserActive(World, p, o).err = "ok"

\* Steps of a transaction: the action on the current patch begins, completes
\* or fails, and rollback() begins the transition of a completed patch.
ActionBegins == txn.pc = "loop" /\ txn'.pc = "wait"
ActionCompletes == txn.pc = "wait" /\ txn'.pc = "loop"
ActionFails == txn.pc \in {"loop", "wait"} /\ txn'.pc \in {"rollback", "done"}
RollbackCalls == txn.pc = "rollback" /\ txn'.pc = "rbwait"

\* The completed patches are recorded in completion order with the status
\* read right before their action, and rollback() takes them from the end.
RollbackOrder ==
    /\ ActionBegins => txn'.old_status = StatusOf(entry_map', txn'.cur)
    /\ ActionCompletes
         => txn'.finish_list = Append(txn.finish_list, <<txn.cur, txn.old_status>>)
    /\ (ActionFails /\ txn.patch_list # <<>> /\ txn.pc = "loop")
         => txn'.finish_list = txn.finish_list
    /\ RollbackCalls
         => LET n == Len(txn.finish_list)
            IN /\ call'.caller = "rollback"
               /\ call'.patch = txn.finish_list[n][1]
               /\ call'.target = txn.finish_list[n][2]
               /\ txn'.finish_list = SubSeq(txn.finish_list, 1, n - 1)

\* C25: when a transaction has failed, rollback has called
\* do_status_transition(patch, old_status) for every patch whose action
\* completed (none is left on finish_list), last completed first, old_status
\* being the status read right before the patch's action.
C25_RollbackCallsEveryCompleted ==
    /\ []((txn.pc = "done" /\ txn.result.kind = "err") => txn.finish_list = <<>>)
    /\ [][RollbackOrder]_vars

\* C26: a transaction runs its action on the matched patches in the order
\* match_patch returned them: the action that begins is on the first match
\* on which no action has completed yet, and rollback restores the completed
\* matches from the last one back to the first.
C26_ActionsInMatchOrder ==
    [][/\ ActionBegins => txn'.cur = txn.matched[Len(txn.finish_list) + 1]
       /\ RollbackCalls => call'.patch = txn.matched[Len(txn.finish_list)]]_vars

\* The status a primitive sets when it succeeds.
StatusSetBy(action) ==
    CASE action = "apply" -> "Deactived"
      [] action = "remove" -> "NotApplied"
      [] action = "active" -> "Actived"
      [] action = "deactive" -> "Deactived"
      [] action = "accept" -> "Accepted"
      [] action = "decline" -> "Actived"

\* do_status_transition has returned an error from its k-th primitive.
PrimitiveFailed ==
    /\ call.pc = "ret" /\ call.err # "ok"
    /\ call.done # <<>>

\* C27: when the k-th primitive of a transition fails, do_status_transition
\* returns an error, the primitives after it are not invoked, and the status
\* of the patch is the one set by primitive k-1, or the status the
\* transition started from when k = 1.
C27_FailedPrimitiveKeepsLastStatus ==
    /\ [](PrimitiveFailed =>
            LET k == Len(call.done)
            IN /\ call.done \o call.todo = TRANSITION_MAP[<<call.from, call.target>>]
               /\ StatusOf(entry_map, call.patch) =
                     IF k = 1 THEN call.from ELSE StatusSetBy(call.done[k - 1])
               /\ Resolved(World, call.patch) = StatusOf(entry_map, call.patch))
    /\ [][PrimitiveFailed => (call' = call \/ call' = NoCall)]_vars

\* Accepted -> NotApplied failed at deactive and left the patch Actived.
C27_Witness ==
    /\ PrimitiveFailed
    /\ call.from = "Accepted" /\ call.target = "NotApplied"
    /\ call.done = <<"decline", "deactive">> /\ call.todo = <<"remove">>
    /\ StatusOf(entry_map, call.patch) = "Actived"

\* The step is a successful active primitive on a user patch.
UserActiveSucceeds ==
    /\ call.pc = "run" /\ call.todo # <<>> /\ Head(call.todo) = "active"
    /\ call.patch \in UPatches
    /\ call' # call /\ call'.err = "ok"

\* C28: after a successful active(p) over the enumerated processes P, the
\* active_pids of p are the pids of P on which active_patch succeeded and
\* its ignored_pids those on which it failed: for every outcome of the
\* injections that lets active succeed in the current state, and on every
\* step in which active succeeds (the two sets then split P).
C28_ActiveSplitsProcesses ==
    /\ [](\A p \in UPatches, ok_pids \in SUBSET procs, fail \in {"none", "exe"} :
            LET r == UserActive(World, p, [fail |-> fail, ok_pids |-> ok_pids])
            IN r.err = "ok" =>
                  r.w.target_map[TargetElf[p]].patches[p] =
                      [active_pids |-> procs \cap ok_pids,
                       ignored_pids |-> procs \ ok_pids])
    /\ [][UserActiveSucceeds =>
            LET entity == target_map'[TargetElf[call.patch]].patches[call.patch]
            IN /\ entity.active_pids \cup entity.ignored_pids = procs
               /\ entity.active_pids \cap entity.ignored_pids = {}
               /\ entity.active_pids # {}]_vars

\* An active has succeeded with the injection failing on one process.
C28_Witness ==
    /\ call.pc = "ret" /\ call.err = "ok"
    /\ call.patch = "u1" /\ call.done = <<"apply", "active">>
    /\ procs = Pids
    /\ target_map["/usr/bin/svc"].patches["u1"] =
          [active_pids |-> Pids \ {NumPids}, ignored_pids |-> {NumPids}]

\* At least one patch is attached to the target ELF t.
Attached(t) == t \in DOMAIN target_map /\ is_patched(target_map[t])

\* C29: between driver operations a target ELF is watched by the monitor if
\* and only if at least one patch is attached to it.
C29_WatchedIffAttached ==
    call.pc # "run" =>
       \A t \in {TargetElf[p] : p \in UPatches} : (t \in watched) <=> Attached(t)

\* The status the sysfs enabled file of a kernel patch stands for; Accepted
\* is kept by the manager only and reads "1" like Actived.
SysfsOf(status) ==
    CASE status = "NotApplied" -> "absent"
      [] status = "Deactived" -> KPATCH_STATUS_DISABLED
      [] status \in {"Actived", "Accepted"} -> KPATCH_STATUS_ENABLED

\* C30: between operations, every kernel patch with a resolved status is
\* NotApplied iff its sysfs enabled file is absent, Deactived iff it reads
\* "0", and Actived or Accepted iff it reads "1"; the status query of the
\* driver maps "0" to Deactived, "1" to Actived, a missing file to
\* NotApplied and anything else to an error.
C30_KernelStatusMatchesSysfs ==
    /\ Idle =>
         \A i \in DOMAIN entry_map :
            (entry_map[i].uuid \in KPatches /\ entry_map[i].status # "Unknown")
               => sysfs[entry_map[i].uuid] = SysfsOf(entry_map[i].status)
    /\ \A k \in KPatches, content \in SysfsContent :
          LET r == KernelGetPatchStatus([World EXCEPT !.sysfs[k] = content],
                                        k, NoFailure)
          IN CASE content = KPATCH_STATUS_DISABLED ->
                    r.err = "ok" /\ r.status = "Deactived"
               [] content = KPATCH_STATUS_ENABLED ->
                    r.err = "ok" /\ r.status = "Actived"
               [] content = "absent" ->
                    r.err = "ok" /\ r.status = "NotApplied"
               [] OTHER -> r.err # "ok"

\* One kernel patch is Accepted and enabled, the other Deactived and
\* disabled, after transactions on both.
C30_Witness ==
    /\ Idle
    /\ txn.pc = "done"
    /\ StatusOf(entry_map, "k1") = "Accepted" /\ sysfs["k1"] = KPATCH_STATUS_ENABLED
    /\ StatusOf(entry_map, "k2") = "Deactived" /\ sysfs["k2"] = KPATCH_STATUS_DISABLED

\* C31: after every operation of the user driver, a target ELF is a key of
\* target_map if and only if at least one patch is attached to it.
C31_RegisteredIffPatched ==
    \A t \in {TargetElf[p] : p \in UPatches} :
       (t \in DOMAIN target_map) <=> Attached(t)

\* What the manager and the drivers hold about patch p in the world w.
PatchStateOf(w, p) ==
    [status |-> StatusOf(w.entry_map, p),
     sysfs |-> IF p \in KPatches THEN w.sysfs[p] ELSE "none",
     symbols |-> UNION {{<<t, r>> : r \in {x \in w.patch_target_map[t] : x.uuid = p}} :
                           t \in DOMAIN w.patch_target_map},
     driver_status |-> IF p \in DOMAIN w.status_map THEN w.status_map[p] ELSE "none",
     attached |-> {t \in DOMAIN w.target_map : p \in DOMAIN w.target_map[t].patches}]

\* The status file holds a status other than Accepted for p.
SavedNotAccepted(p) ==
    /\ status_file.kind = "ok"
    /\ p \in DOMAIN status_file.map
    /\ status_file.map[p] \in {"NotApplied", "Deactived", "Actived"}

\* C32: restore_patch_status(true) calls do_status_transition only for
\* patches saved as Accepted, with Accepted as the target; no step of such a
\* restore changes the status or the driver state of a patch saved as
\* NotApplied, Deactived or Actived.
C32_AcceptedOnlyRestore ==
    /\ [](call.caller = "restore"
            => /\ status_file.map[call.patch] = "Accepted"
               /\ call.target = "Accepted")
    /\ [][\A p \in Uuids(entry_map) :
            SavedNotAccepted(p) => PatchStateOf(World, p)' = PatchStateOf(World, p)]_vars

\* u1, saved as Accepted, has been restored while k1, saved as Actived and
\* not applied, was left alone.
C32_Witness ==
    /\ restore.pc = "done" /\ restore.err = "ok"
    /\ status_file = StatusFile([k1 |-> "Actived", u1 |-> "Accepted"])
    /\ StatusOf(entry_map, "u1") = "Accepted"
    /\ StatusOf(entry_map, "k1") = "Unknown"
    /\ sysfs["k1"] = "absent"

\* The step is an active primitive on a user patch that returns an error.
UserActiveFails ==
    /\ call.pc = "run" /\ call.todo # <<>> /\ Head(call.todo) = "active"
    /\ call.patch \in UPatches
    /\ call' # call /\ call'.err # "ok"

\* C33: an active(p) of the user driver that returns an error leaves the
\* patch set and the function registry of the target and the driver status
\* of p as they were, so that p is never attached to its target while its
\* driver status is Deactived.
C33_FailedActiveChangesNothing ==
    /\ [][UserActiveFails =>
            /\ target_map' = target_map
            /\ status_map' = status_map]_vars
    /\ [](\A p \in UPatches :
            (TargetElf[p] \in DOMAIN target_map
                /\ p \in DOMAIN target_map[TargetElf[p]].patches)
               => (p \in DOMAIN status_map /\ status_map[p] # "Deactived"))

\* The entity of user patch p on its target, when p is attached.
IsAttached(p) ==
    /\ TargetElf[p] \in DOMAIN target_map
    /\ p \in DOMAIN target_map[TargetElf[p]].patches

\* The step is the body of deactive(p).
DeactiveBody(p) ==
    /\ upatch.op.name = "deactive" /\ upatch.op.patch = p
    /\ upatch.op.pc > 0 /\ DeactiveSteps[upatch.op.pc] = "body"
    /\ target_map' # target_map

\* C34: a live pid in the active_pids of an attached patch p stays there
\* until p is deactivated; in particular the scan of the monitor, which
\* enumerated the processes before taking the guard, drops no pid that a
\* concurrent active(p) injected.
C34_InjectedPidStays ==
    [][\A p \in UPatches :
          (IsAttached(p) /\ ~DeactiveBody(p))
             => /\ IsAttached(p)'
                /\ (EntityOf(p).active_pids \cap procs') \subseteq EntityOf(p)'.active_pids]_vars

\* The step is the body of a deactive(p) that goes on to return success:
\* every sys::deactive_patch it called succeeded and p is detached.
DeactiveBodySucceeds(p) ==
    /\ DeactiveBody(p)
    /\ IsAttached(p) /\ ~IsAttached(p)'
    /\ upatch'.op.err = "ok"

\* C35: a deactive(p) that returns success has called sys::deactive_patch on
\* every live process recorded in p's active_pids, so that no live process
\* keeps p injected, also when the monitor injected p into a new process
\* between the enumeration of deactive and its taking of the guard.
C35_DeactiveLeavesNoInjectedProcess ==
    [][\A p \in UPatches :
          DeactiveBodySucceeds(p)
             => (EntityOf(p).active_pids \cap procs) \subseteq upatch.op.found]_vars

\* The symbol registry of the kernel driver holds a record of patch p.
HasSymbolRecords(p) ==
    \E t \in DOMAIN patch_target_map : \E r \in patch_target_map[t] : r.uuid = p

\* C36: between operations, the kernel symbol registry holds records of a
\* patch with a resolved status if and only if that status is Actived or
\* Accepted, also for a patch that was enabled in sysfs before the daemon
\* resolved its status.
C36_RegistryIffActive ==
    Idle =>
      \A i \in DOMAIN entry_map :
         (entry_map[i].uuid \in KPatches /\ entry_map[i].status # "Unknown")
            => (HasSymbolRecords(entry_map[i].uuid)
                   <=> entry_map[i].status \in {"Actived", "Accepted"})

\* C37: in every reachable state, under any interleaving of active, deactive
\* and the scans of the monitor, the active_pids and the ignored_pids of
\* every patch attached to a user target are disjoint.
C37_ActiveAndIgnoredDisjoint ==
    \A p \in UPatches :
       IsAttached(p) => EntityOf(p).active_pids \cap EntityOf(p).ignored_pids = {}

\* Between the enumeration of a deactive(u1) and its taking of the guard,
\* the scan of the monitor has failed to inject u1 into a process that
\* started meanwhile; u1 has an injected and an ignored process.
C37_Witness ==
    /\ upatch.op.name = "deactive" /\ upatch.op.patch = "u1"
    /\ upatch.op.pc = 2
    /\ IsAttached("u1")
    /\ EntityOf("u1").active_pids # {}
    /\ EntityOf("u1").ignored_pids \ upatch.op.found # {}

\* The transaction is about to call a public operation that the manager
\* refuses: active or deactive on a NotApplied patch, or accept on a patch
\* that is NotApplied, Deactived or Accepted.
RefusedOperation ==
    /\ txn.pc = "loop" /\ txn.patch_list # <<>>
    /\ LET status == Resolved(World, txn.patch_list[Len(txn.patch_list)])
       IN \/ txn.name \in {"active", "deactive"} /\ status = "NotApplied"
          \/ txn.name = "accept" /\ status \in {"NotApplied", "Deactived", "Accepted"}

\* C38: active_patch and deactive_patch on a NotApplied patch, and
\* accept_patch on a patch that is not Actived, return an error, invoke no
\* driver primitive and leave the status of the patch as it was.
C38_RefusedOperationChangesNothing ==
    [][(RefusedOperation /\ txn' # txn) =>
          \A p \in Patches :
             p = txn.patch_list[Len(txn.patch_list)] =>
                /\ txn'.err # <<>> /\ txn'.err[1] = p
                /\ txn'.pc # "wait"
                /\ call' = NoCall
                /\ Resolved(World, p)' = Resolved(World, p)
                /\ UNCHANGED <<sysfs, patch_target_map, status_map, target_map,
                               watched>>]_vars

\* accept on an Accepted user patch has been refused.
C38_Witness ==
    /\ txn.name = "accept" /\ txn.cur = "u1"
    /\ txn.err = <<"u1", "InvalidTransition">>
    /\ txn.old_status = "Accepted"
    /\ StatusOf(entry_map, "u1") = "Accepted"

\* A transition of the restore loop has returned an error.
RestoreFails ==
    /\ restore.pc = "wait" /\ call.pc = "ret" /\ call.err # "ok"

\* The entries of the sorted restore list before and after the entry of the
\* transition in progress.
EntriesBeforeCall ==
    LET full == restore_list(entry_map, status_file.map, FALSE)
    IN {full[j] : j \in {i \in DOMAIN full : \E k \in DOMAIN full :
                            k > i /\ full[k][1] = call.patch}}

EntriesAfterCall ==
    LET full == restore_list(entry_map, status_file.map, FALSE)
    IN SelectSeq(full, LAMBDA e : e \notin EntriesBeforeCall /\ e[1] # call.patch)

\* C39: when a transition of restore_patch_status fails, the entries before
\* it in the sorted order have their restored statuses, the restore returns
\* that error at once without changing anything, and the later entries are
\* left in the list: no transition is attempted for them.
C39_RestoreStopsAtFirstError ==
    /\ [](RestoreFails =>
            /\ \A e \in EntriesBeforeCall : StatusOf(entry_map, e[1]) = e[2]
            /\ restore.list = EntriesAfterCall)
    /\ [][(RestoreFails /\ restore' # restore) =>
            /\ restore' = [restore EXCEPT !.pc = "done", !.err = call.err]
            /\ call' = NoCall
            /\ UNCHANGED worldVars]_vars
    /\ [](restore.pc = "done" => call.pc = "none")

\* The restore of k1 to Deactived succeeded, that of u1 to Actived failed.
C39_Witness ==
    /\ restore.pc = "done" /\ restore.err \notin {"ok", "ReadFailed"}
    /\ status_file = StatusFile([k1 |-> "Deactived", u1 |-> "Actived"])
    /\ StatusOf(entry_map, "k1") = "Deactived"
    /\ sysfs["k1"] = KPATCH_STATUS_DISABLED
    /\ StatusOf(entry_map, "u1") # "Actived"

\* The patch object f has both sections and well-aligned data.
HasSections(f) == f.has_funcs /\ f.has_strings /\ f.aligned

\* A name or obj_name relocation of f whose addend is rel points outside
\* .kpatch.strings, or at a string without a NUL terminator.
AddendOutside(f, rel) == rel.addend >= Len(f.string_data)

Unterminated(f, rel) ==
    /\ rel.addend < Len(f.string_data)
    /\ \A i \in (rel.addend + 1)..Len(f.string_data) : f.string_data[i] # 0

NameRelocations(f) ==
    {f.relocations[j] : j \in {i \in DOMAIN f.relocations :
                                  (i - 1) % KPATCH_FUNC_RELA_TYPE_NUM # 0}}

\* One of the four defects of a patch object.
Malformed(f) ==
    \/ ~f.has_funcs \/ ~f.has_strings
    \/ f.function_data_len % KPATCH_FUNC_SIZE # 0
    \/ \E rel \in NameRelocations(f) : AddendOutside(f, rel) \/ Unterminated(f, rel)

\* C40: resolving a kernel patch object with a missing section, a
\* .kpatch.funcs length that is no multiple of the record size, a relocation
\* addend outside .kpatch.strings or an unterminated string returns an
\* error result from resolve_patch_file: the call neither panics nor
\* returns a symbol list.
C40_MalformedObjectIsAnError ==
    (resolve.pc # "idle" /\ Malformed(resolve.file))
       => resolve.result.kind = "err"

=============================================================================
